---- MODULE Spec2Model ----
(***************************************************************************)
(* A model of the tetrs simulation core: the 7-bag randomizer (bag.rs),    *)
(* the board (board.rs), the falling piece with SRS wall kicks (piece.rs,  *)
(* srs.rs, tetromino.rs), the score engine (score.rs), the mode state      *)
(* (mode.rs) and the Game state machine (game.rs).                         *)
(*                                                                         *)
(* Wall-clock instants are modelled by the time elapsed since them, in     *)
(* milliseconds: `Instant::now()` is 0 and the action Tick lets TickMs     *)
(* milliseconds pass.  Every elapsed time saturates at the largest         *)
(* threshold the code compares it with.                                    *)
(***************************************************************************)
EXTENDS Integers, Sequences, FiniteSets, TLC

\* F applied to the value of e, which is computed once.
Let(e, F(_)) == CHOOSE y \in {F(x) : x \in {e}} : TRUE

(***************************************************************************)
(* tetromino.rs                                                            *)
(***************************************************************************)
\* TetrominoType::all(): the 7 kinds in declaration order.
all == <<"I", "O", "T", "S", "Z", "J", "L">>

TetrominoType == {all[i] : i \in 1..Len(all)}

\* TetrominoType::color(): the colour a locked cell of the kind carries.
color(kind) ==
    CASE kind = "I" -> "Cyan"
      [] kind = "O" -> "Yellow"
      [] kind = "T" -> "Magenta"
      [] kind = "S" -> "Green"
      [] kind = "Z" -> "Red"
      [] kind = "J" -> "Blue"
      [] kind = "L" -> "Orange"

Rotation == {"North", "East", "South", "West"}

\* Rotation::cw()
cw(r) ==
    CASE r = "North" -> "East"
      [] r = "East" -> "South"
      [] r = "South" -> "West"
      [] r = "West" -> "North"

\* Rotation::ccw()
ccw(r) ==
    CASE r = "North" -> "West"
      [] r = "West" -> "South"
      [] r = "South" -> "East"
      [] r = "East" -> "North"

\* TetrominoType::shape(): 4 (row, col) offsets, rows increasing upward.
shape(kind, rotation) ==
    CASE kind = "I" ->
           (CASE rotation = "North" -> << <<0, -1>>, <<0, 0>>, <<0, 1>>, <<0, 2>> >>
              [] rotation = "East" -> << <<1, 1>>, <<0, 1>>, <<-1, 1>>, <<-2, 1>> >>
              [] rotation = "South" -> << <<-1, -1>>, <<-1, 0>>, <<-1, 1>>, <<-1, 2>> >>
              [] rotation = "West" -> << <<1, 0>>, <<0, 0>>, <<-1, 0>>, <<-2, 0>> >>)
      [] kind = "O" -> << <<0, 0>>, <<0, 1>>, <<-1, 0>>, <<-1, 1>> >>
      [] kind = "T" ->
           (CASE rotation = "North" -> << <<0, -1>>, <<0, 0>>, <<0, 1>>, <<1, 0>> >>
              [] rotation = "East" -> << <<1, 0>>, <<0, 0>>, <<-1, 0>>, <<0, 1>> >>
              [] rotation = "South" -> << <<0, -1>>, <<0, 0>>, <<0, 1>>, <<-1, 0>> >>
              [] rotation = "West" -> << <<1, 0>>, <<0, 0>>, <<-1, 0>>, <<0, -1>> >>)
      [] kind = "S" ->
           (CASE rotation = "North" -> << <<1, 0>>, <<1, 1>>, <<0, -1>>, <<0, 0>> >>
              [] rotation = "East" -> << <<1, 0>>, <<0, 0>>, <<0, 1>>, <<-1, 1>> >>
              [] rotation = "South" -> << <<0, 0>>, <<0, 1>>, <<-1, -1>>, <<-1, 0>> >>
              [] rotation = "West" -> << <<1, -1>>, <<0, -1>>, <<0, 0>>, <<-1, 0>> >>)
      [] kind = "Z" ->
           (CASE rotation = "North" -> << <<1, -1>>, <<1, 0>>, <<0, 0>>, <<0, 1>> >>
              [] rotation = "East" -> << <<1, 1>>, <<0, 0>>, <<0, 1>>, <<-1, 0>> >>
              [] rotation = "South" -> << <<0, -1>>, <<0, 0>>, <<-1, 0>>, <<-1, 1>> >>
              [] rotation = "West" -> << <<1, 0>>, <<0, -1>>, <<0, 0>>, <<-1, -1>> >>)
      [] kind = "J" ->
           (CASE rotation = "North" -> << <<1, -1>>, <<0, -1>>, <<0, 0>>, <<0, 1>> >>
              [] rotation = "East" -> << <<1, 0>>, <<1, 1>>, <<0, 0>>, <<-1, 0>> >>
              [] rotation = "South" -> << <<0, -1>>, <<0, 0>>, <<0, 1>>, <<-1, 1>> >>
              [] rotation = "West" -> << <<1, 0>>, <<0, 0>>, <<-1, 0>>, <<-1, -1>> >>)
      [] kind = "L" ->
           (CASE rotation = "North" -> << <<1, 1>>, <<0, -1>>, <<0, 0>>, <<0, 1>> >>
              [] rotation = "East" -> << <<1, 0>>, <<0, 0>>, <<-1, 0>>, <<-1, 1>> >>
              [] rotation = "South" -> << <<0, -1>>, <<0, 0>>, <<0, 1>>, <<-1, -1>> >>
              [] rotation = "West" -> << <<1, -1>>, <<1, 0>>, <<0, 0>>, <<-1, 0>> >>)

\* TetrominoType::spawn_position()
spawn_position(kind) ==
    IF kind \in {"I", "O"} THEN <<0, 4>> ELSE <<1, 4>>

(***************************************************************************)
(* srs.rs                                                                  *)
(***************************************************************************)
\* jlstz_kicks(): (row, col) offsets, row+ is up.
jlstz_kicks(from, direction) ==
    CASE from = "North" /\ direction = "Clockwise" ->
           << <<0, 0>>, <<0, -1>>, <<1, -1>>, <<-2, 0>>, <<-2, -1>> >>
      [] from = "East" /\ direction = "CounterClockwise" ->
           << <<0, 0>>, <<0, 1>>, <<-1, 1>>, <<2, 0>>, <<2, 1>> >>
      [] from = "East" /\ direction = "Clockwise" ->
           << <<0, 0>>, <<0, 1>>, <<-1, 1>>, <<2, 0>>, <<2, 1>> >>
      [] from = "South" /\ direction = "CounterClockwise" ->
           << <<0, 0>>, <<0, -1>>, <<1, -1>>, <<-2, 0>>, <<-2, -1>> >>
      [] from = "South" /\ direction = "Clockwise" ->
           << <<0, 0>>, <<0, 1>>, <<1, 1>>, <<-2, 0>>, <<-2, 1>> >>
      [] from = "West" /\ direction = "CounterClockwise" ->
           << <<0, 0>>, <<0, -1>>, <<-1, -1>>, <<2, 0>>, <<2, -1>> >>
      [] from = "West" /\ direction = "Clockwise" ->
           << <<0, 0>>, <<0, -1>>, <<-1, -1>>, <<2, 0>>, <<2, -1>> >>
      [] from = "North" /\ direction = "CounterClockwise" ->
           << <<0, 0>>, <<0, 1>>, <<1, 1>>, <<-2, 0>>, <<-2, 1>> >>

\* i_piece_kicks()
i_piece_kicks(from, direction) ==
    CASE from = "North" /\ direction = "Clockwise" ->
           << <<0, 0>>, <<0, -2>>, <<0, 1>>, <<1, -2>>, <<-2, 1>> >>
      [] from = "East" /\ direction = "CounterClockwise" ->
           << <<0, 0>>, <<0, 2>>, <<0, -1>>, <<-1, 2>>, <<2, -1>> >>
      [] from = "East" /\ direction = "Clockwise" ->
           << <<0, 0>>, <<0, -1>>, <<0, 2>>, <<-1, -1>>, <<2, 2>> >>
      [] from = "South" /\ direction = "CounterClockwise" ->
           << <<0, 0>>, <<0, 1>>, <<0, -2>>, <<1, 1>>, <<-2, -2>> >>
      [] from = "South" /\ direction = "Clockwise" ->
           << <<0, 0>>, <<0, 2>>, <<0, -1>>, <<1, 2>>, <<-2, -1>> >>
      [] from = "West" /\ direction = "CounterClockwise" ->
           << <<0, 0>>, <<0, -2>>, <<0, 1>>, <<-1, -2>>, <<2, 1>> >>
      [] from = "West" /\ direction = "Clockwise" ->
           << <<0, 0>>, <<0, 1>>, <<0, -2>>, <<1, 1>>, <<-2, -2>> >>
      [] from = "North" /\ direction = "CounterClockwise" ->
           << <<0, 0>>, <<0, -1>>, <<0, 2>>, <<-1, -1>>, <<2, 2>> >>

\* get_wall_kicks()
get_wall_kicks(piece_type, from, direction) ==
    CASE piece_type = "O" -> [i \in 1..5 |-> <<0, 0>>]
      [] piece_type = "I" -> i_piece_kicks(from, direction)
      [] OTHER -> jlstz_kicks(from, direction)

(***************************************************************************)
(* board.rs                                                                *)
(***************************************************************************)
BOARD_WIDTH == 10
BOARD_HEIGHT == 20
BUFFER_HEIGHT == 4
TOTAL_HEIGHT == BOARD_HEIGHT + BUFFER_HEIGHT

Rows == 0..(TOTAL_HEIGHT - 1)
Cols == 0..(BOARD_WIDTH - 1)

\* [Cell::Empty; BOARD_WIDTH]
EmptyRow == [c \in Cols |-> "Empty"]

\* Board::new()
Board_new == [r \in Rows |-> EmptyRow]

\* Cell::is_empty / Cell::is_filled
cell_is_empty(cell) == cell = "Empty"
cell_is_filled(cell) == cell # "Empty"

\* Board::get(): the cell, or "None" out of bounds.
get(cells, row, col) ==
    IF row < 0 \/ col < 0 THEN "None"
    ELSE IF row >= TOTAL_HEIGHT \/ col >= BOARD_WIDTH THEN "None"
    ELSE cells[row][col]

\* Board::set() taking the hidden rows for out of bounds.
set_visible_only(cells, row, col, cell) ==
    IF row < 0 \/ col < 0 THEN cells
    ELSE IF row >= BOARD_HEIGHT \/ col >= BOARD_WIDTH THEN cells
    ELSE [cells EXCEPT ![row][col] = cell]

\* Board::set(): the grid after the call; out of bounds nothing is written.
set(cells, row, col, cell) ==
    IF row < 0 \/ col < 0 THEN cells
    ELSE IF row >= TOTAL_HEIGHT \/ col >= BOARD_WIDTH THEN cells
    ELSE [cells EXCEPT ![row][col] = cell]

\* Board::is_valid_position()
is_valid_position(cells, row, col) ==
    IF col < 0 \/ col >= BOARD_WIDTH THEN FALSE
    ELSE IF row < 0 THEN FALSE
    ELSE IF row >= TOTAL_HEIGHT THEN TRUE
    ELSE cell_is_empty(cells[row][col])

\* Board::are_positions_valid()
are_positions_valid(cells, positions) ==
    \A i \in 1..Len(positions) :
        is_valid_position(cells, positions[i][1], positions[i][2])

RECURSIVE board_lock_from(_, _, _, _)
board_lock_from(cells, positions, cellv, i) ==
    IF i > Len(positions) THEN cells
    ELSE board_lock_from(set(cells, positions[i][1], positions[i][2], cellv),
                         positions, cellv, i + 1)

\* Board::lock_piece()
board_lock_piece(cells, positions, piece_type) ==
    board_lock_from(cells, positions, color(piece_type), 1)

\* A row counts as full as soon as one of its cells is filled.
is_line_touched(cells, row) == \E col \in Cols : cell_is_filled(cells[row][col])

\* Board::is_line_full()
is_line_full(cells, row) ==
    \A c \in Cols : cell_is_filled(cells[row][c])

\* The read loop of Board::clear_lines(), from read_row upward.
RECURSIVE clear_lines_loop(_, _, _, _)
clear_lines_loop(cells, read_row, write_row, lines_cleared) ==
    IF read_row >= TOTAL_HEIGHT
    THEN [cells |-> cells, write_row |-> write_row, lines_cleared |-> lines_cleared]
    ELSE IF ~is_line_full(cells, read_row)
    THEN Let(IF write_row # read_row
             THEN [cells EXCEPT ![write_row] = cells[read_row]]
             ELSE cells,
             LAMBDA kept :
                 clear_lines_loop(kept, read_row + 1, write_row + 1, lines_cleared))
    ELSE clear_lines_loop(cells, read_row + 1, write_row, lines_cleared + 1)

\* Board::clear_lines() counting the full rows and leaving them in place.
clear_lines_counting(cells) ==
    Let(clear_lines_loop(cells, 0, 0, 0),
        LAMBDA r : [cells |-> cells, lines_cleared |-> r.lines_cleared])

\* Board::clear_lines(): the grid after the call and the count returned.
clear_lines(cells) ==
    Let(clear_lines_loop(cells, 0, 0, 0),
        LAMBDA r :
            [cells |-> [row \in Rows |->
                           IF row >= r.write_row THEN EmptyRow ELSE r.cells[row]],
             lines_cleared |-> r.lines_cleared])

\* Board::is_empty()
board_is_empty(cells) ==
    \A r \in Rows : \A c \in Cols : cell_is_empty(cells[r][c])

(***************************************************************************)
(* piece.rs                                                                *)
(***************************************************************************)
\* Piece::new()
Piece_new(piece_type) ==
    [piece_type |-> piece_type,
     rotation |-> "North",
     row |-> 20 + spawn_position(piece_type)[1],
     col |-> spawn_position(piece_type)[2],
     last_kick |-> 0]

\* Piece::block_positions()
block_positions(p) ==
    LET offsets == shape(p.piece_type, p.rotation)
    IN [i \in 1..4 |-> <<p.row + offsets[i][1], p.col + offsets[i][2]>>]

\* Piece::move_left() without its validity test.
piece_move_left_unchecked(p, cells) ==
    [piece |-> [p EXCEPT !.col = p.col - 1, !.last_kick = 0], ok |-> TRUE]

\* Piece::move_left(): the piece after the call and the value returned.
piece_move_left(p, cells) ==
    LET q == [p EXCEPT !.col = p.col - 1]
    IN IF are_positions_valid(cells, block_positions(q))
       THEN [piece |-> [q EXCEPT !.last_kick = 0], ok |-> TRUE]
       ELSE [piece |-> p, ok |-> FALSE]

\* Piece::move_right()
piece_move_right(p, cells) ==
    LET q == [p EXCEPT !.col = p.col + 1]
    IN IF are_positions_valid(cells, block_positions(q))
       THEN [piece |-> [q EXCEPT !.last_kick = 0], ok |-> TRUE]
       ELSE [piece |-> p, ok |-> FALSE]

\* Piece::move_down() leaving last_kick as the last rotation set it.
piece_move_down_keeping_kick(p, cells) ==
    LET q == [p EXCEPT !.row = p.row - 1]
    IN IF are_positions_valid(cells, block_positions(q))
       THEN [piece |-> q, ok |-> TRUE]
       ELSE [piece |-> p, ok |-> FALSE]

\* Piece::move_down()
piece_move_down(p, cells) ==
    LET q == [p EXCEPT !.row = p.row - 1]
    IN IF are_positions_valid(cells, block_positions(q))
       THEN [piece |-> [q EXCEPT !.last_kick = 0], ok |-> TRUE]
       ELSE [piece |-> p, ok |-> FALSE]

\* The kick loop of Piece::rotate(), from kick index kick_idx (0-based).
RECURSIVE rotate_try(_, _, _, _, _)
rotate_try(p, new_rotation, kicks, cells, kick_idx) ==
    IF kick_idx >= Len(kicks)
    THEN [piece |-> p, ok |-> FALSE]
    ELSE LET q == [p EXCEPT !.row = p.row + kicks[kick_idx + 1][1],
                            !.col = p.col + kicks[kick_idx + 1][2],
                            !.rotation = new_rotation]
         IN IF are_positions_valid(cells, block_positions(q))
            THEN [piece |-> [q EXCEPT !.last_kick = kick_idx + 1], ok |-> TRUE]
            ELSE rotate_try(p, new_rotation, kicks, cells, kick_idx + 1)

\* Piece::rotate() trying the first offset of the table only.
piece_rotate_unkicked(p, direction, cells) ==
    LET new_rotation == IF direction = "Clockwise" THEN cw(p.rotation)
                        ELSE ccw(p.rotation)
        kicks == get_wall_kicks(p.piece_type, p.rotation, direction)
    IN rotate_try(p, new_rotation, SubSeq(kicks, 1, 1), cells, 0)

\* Piece::rotate()
piece_rotate(p, direction, cells) ==
    LET new_rotation == IF direction = "Clockwise" THEN cw(p.rotation)
                        ELSE ccw(p.rotation)
        kicks == get_wall_kicks(p.piece_type, p.rotation, direction)
    IN rotate_try(p, new_rotation, kicks, cells, 0)

\* The loop of Piece::hard_drop().
RECURSIVE hard_drop_loop(_, _, _)
hard_drop_loop(p, cells, distance) ==
    Let(piece_move_down(p, cells),
        LAMBDA m : IF m.ok THEN hard_drop_loop(m.piece, cells, distance + 1)
                   ELSE [piece |-> p, distance |-> distance])

\* Piece::hard_drop(): the piece after the call and the distance returned.
piece_hard_drop(p, cells) == hard_drop_loop(p, cells, 0)

\* The loop of Piece::ghost_row() from the candidate row ghost_row.
RECURSIVE ghost_row_loop_blocked(_, _, _)
ghost_row_loop_blocked(p, cells, ghost_row) ==
    IF ~are_positions_valid(cells, block_positions([p EXCEPT !.row = ghost_row - 1]))
    THEN ghost_row - 1
    ELSE ghost_row_loop_blocked(p, cells, ghost_row - 1)

\* The loop of Piece::ghost_row(): ghost_row is the row before `ghost_row -= 1`.
RECURSIVE ghost_row_loop(_, _, _)
ghost_row_loop(p, cells, ghost_row) ==
    IF ~are_positions_valid(cells, block_positions([p EXCEPT !.row = ghost_row - 1]))
    THEN (ghost_row - 1) + 1
    ELSE ghost_row_loop(p, cells, ghost_row - 1)

\* Piece::ghost_row()
ghost_row(p, cells) == ghost_row_loop(p, cells, p.row)

\* Piece::is_t_piece()
is_t_piece(p) == p.piece_type = "T"

(***************************************************************************)
(* bag.rs                                                                  *)
(***************************************************************************)
\* Number of outcomes of one shuffle the model lets the generator produce.
MaxShuffles == 2

\* One outcome of `new_bag.shuffle(..)`: the i-th permutation of a fixed family
\* of permutations of TetrominoType::all().
Shuffled(i) ==
    [k \in 1..Len(all) |->
        all[(((1 + ((4 + i) % 6)) * (k - 1) + 4 + 3 * i) % Len(all)) + 1]]

\* What `new_bag.shuffle(&mut thread_rng())` may leave in new_bag: the generator
\* is seeded by the operating system, so every call picks any outcome.
ShuffleOutcomes == {Shuffled(i) : i \in 0..(MaxShuffles - 1)}

\* Bag::refill(): extends the queue by a shuffled copy of all().
refill(queue, new_bag) == queue \o new_bag

\* Bag::new(): an empty queue, refilled twice.
Bag_new(new_bag1, new_bag2) == refill(refill(<<>>, new_bag1), new_bag2)

\* Bag::with_seed(): called by Game::with_seed, but not defined in bag.rs.
\* Taken as documented: the seed fully determines the queue it builds, two
\* shuffles of all().  The Bag has no field but the queue, so nothing of the
\* seed outlives the constructor.
Bag_with_seed(seed) ==
    refill(refill(<<>>, Shuffled(2 * seed)), Shuffled(2 * seed + 1))

\* Vec::swap_remove(0) in place of Vec::remove(0): the last kind fills the gap.
queue_swap_remove(queue) ==
    [queue |-> IF Len(queue) = 1 THEN <<>>
               ELSE <<queue[Len(queue)]>> \o SubSeq(queue, 2, Len(queue) - 1),
     kind |-> Head(queue)]

\* The front removal of Bag::next(): `self.queue.remove(0)`.
queue_remove_front(queue) == [queue |-> Tail(queue), kind |-> Head(queue)]

\* Bag::next(): the queue after the call and the kind returned; new_bag is the
\* shuffle outcome used if the call refills.
bag_next(queue, new_bag) ==
    queue_remove_front(IF Len(queue) <= 7 THEN refill(queue, new_bag) ELSE queue)

\* Bag::preview() slicing the back of the queue instead of its front.
preview_of_back(queue, count) ==
    SubSeq(queue, Len(queue) - (IF count < Len(queue) THEN count ELSE Len(queue)) + 1,
           Len(queue))

\* Bag::preview()
preview(queue, count) ==
    SubSeq(queue, 1, IF count < Len(queue) THEN count ELSE Len(queue))

(***************************************************************************)
(* score.rs                                                                *)
(***************************************************************************)
\* ClearType::{Regular, TSpin, MiniTSpin}(n)
ClearType(tag, n) == [tag |-> tag, n |-> n]

\* Score::new()
Score_new ==
    [points |-> 0, level |-> 1, lines |-> 0, combo |-> -1, back_to_back |-> FALSE]

\* The match at the head of Score::add_clear().
clear_table(clear_type) ==
    LET t == clear_type.tag
        n == clear_type.n
    IN CASE t = "Regular" /\ n = 1 -> [base_score |-> 100, lines |-> 1, is_difficult |-> FALSE]
         [] t = "Regular" /\ n = 2 -> [base_score |-> 300, lines |-> 2, is_difficult |-> FALSE]
         [] t = "Regular" /\ n = 3 -> [base_score |-> 500, lines |-> 3, is_difficult |-> FALSE]
         [] t = "Regular" /\ n = 4 -> [base_score |-> 800, lines |-> 4, is_difficult |-> TRUE]
         [] t = "TSpin" /\ n = 0 -> [base_score |-> 400, lines |-> 0, is_difficult |-> TRUE]
         [] t = "TSpin" /\ n = 1 -> [base_score |-> 800, lines |-> 1, is_difficult |-> TRUE]
         [] t = "TSpin" /\ n = 2 -> [base_score |-> 1200, lines |-> 2, is_difficult |-> TRUE]
         [] t = "TSpin" /\ n = 3 -> [base_score |-> 1600, lines |-> 3, is_difficult |-> TRUE]
         [] t = "MiniTSpin" /\ n = 0 -> [base_score |-> 100, lines |-> 0, is_difficult |-> FALSE]
         [] t = "MiniTSpin" /\ n = 1 -> [base_score |-> 200, lines |-> 1, is_difficult |-> FALSE]
         [] OTHER -> [base_score |-> 0, lines |-> 0, is_difficult |-> FALSE]

\* The all-clear bonus match of Score::add_clear().
all_clear_bonus(lines, back_to_back) ==
    CASE lines = 1 -> 800
      [] lines = 2 -> 1200
      [] lines = 3 -> 1800
      [] lines = 4 /\ back_to_back -> 3200
      [] lines = 4 -> 2000
      [] OTHER -> 0

\* Back-to-back doubles the score of a difficult clear instead of adding half.
add_clear_doubling(s, clear_type, all_clear) ==
    LET e == clear_table(clear_type)
        lines == s.lines + e.lines
        level == (lines \div 10) + 1
        score0 == e.base_score * level
        score1 == IF e.is_difficult /\ s.back_to_back THEN score0 * 2 ELSE score0
        back_to_back == IF e.is_difficult THEN TRUE
                        ELSE IF e.lines > 0 THEN FALSE ELSE s.back_to_back
        combo == IF e.lines > 0 THEN s.combo + 1 ELSE s.combo
        score2 == IF e.lines > 0 /\ combo > 0
                  THEN score1 + 50 * combo * level ELSE score1
        score3 == IF all_clear
                  THEN score2 + all_clear_bonus(e.lines, back_to_back) * level
                  ELSE score2
    IN [points |-> s.points + score3, level |-> level, lines |-> lines,
        combo |-> combo, back_to_back |-> back_to_back]

\* Score::add_clear(): the score after the call (the display string it returns
\* is not modelled).
add_clear(s, clear_type, all_clear) ==
    LET e == clear_table(clear_type)
        lines == s.lines + e.lines
        level == (lines \div 10) + 1
        score0 == e.base_score * level
        score1 == IF e.is_difficult /\ s.back_to_back
                  THEN (score0 * 3) \div 2 ELSE score0
        back_to_back == IF e.is_difficult THEN TRUE
                        ELSE IF e.lines > 0 THEN FALSE ELSE s.back_to_back
        combo == IF e.lines > 0 THEN s.combo + 1 ELSE s.combo
        score2 == IF e.lines > 0 /\ combo > 0
                  THEN score1 + 50 * combo * level ELSE score1
        score3 == IF all_clear
                  THEN score2 + all_clear_bonus(e.lines, back_to_back) * level
                  ELSE score2
    IN [points |-> s.points + score3, level |-> level, lines |-> lines,
        combo |-> combo, back_to_back |-> back_to_back]

\* Score::add_soft_drop()
add_soft_drop(s, cells) == [s EXCEPT !.points = s.points + cells]

\* A hard drop scores one point per cell.
add_hard_drop_single(s, cells) == [s EXCEPT !.points = s.points + cells]

\* Score::add_hard_drop()
add_hard_drop(s, cells) == [s EXCEPT !.points = s.points + cells * 2]

\* The combo reset also ends back-to-back.
reset_combo_and_streak(s) == [s EXCEPT !.combo = -1, !.back_to_back = FALSE]

\* Score::reset_combo()
reset_combo(s) == [s EXCEPT !.combo = -1]

\* Score::fall_speed() as a whole number of milliseconds: the least whole
\* millisecond count that is >= (0.8 - (level-1) * 0.007)^(level-1) seconds,
\* for level clamped to at most 20.
fall_speed_table ==
    <<1000, 793, 618, 473, 356, 263, 190, 135, 94, 65,
      43, 29, 19, 12, 8, 5, 3, 2, 1, 1>>

fall_speed(s) ==
    IF s.level >= 20 THEN fall_speed_table[20]
    ELSE IF s.level >= 1 THEN fall_speed_table[s.level]
    ELSE 1000

(***************************************************************************)
(* mode.rs                                                                 *)
(***************************************************************************)
GameMode == {"Marathon", "Sprint", "Ultra"}

\* GameMode::starting_level()
starting_level(mode) ==
    CASE mode = "Marathon" -> 1
      [] mode = "Sprint" -> 5
      [] mode = "Ultra" -> 5

TARGET_LINES == 40
TIME_LIMIT_MS == 180000

\* No instant / no elapsed time (Option::None).
NoInstant == 0 - 1

\* ModeState::new()
ModeState_new(mode) ==
    [mode |-> mode, start_time |-> NoInstant, elapsed |-> 0,
     target_lines |-> TARGET_LINES, time_limit |-> TIME_LIMIT_MS]

\* ModeState::start()
mode_start(m) == [m EXCEPT !.start_time = 0]

\* ModeState::update()
mode_update(m) ==
    IF m.start_time # NoInstant THEN [m EXCEPT !.elapsed = m.start_time] ELSE m

\* A Sprint counts as complete one line before its target.
is_complete_off_by_one(m, lines_cleared) ==
    CASE m.mode = "Marathon" -> FALSE
      [] m.mode = "Sprint" -> lines_cleared + 1 >= m.target_lines
      [] m.mode = "Ultra" -> m.elapsed >= m.time_limit

\* ModeState::is_complete()
is_complete(m, lines_cleared) ==
    CASE m.mode = "Marathon" -> FALSE
      [] m.mode = "Sprint" -> lines_cleared >= m.target_lines
      [] m.mode = "Ultra" -> m.elapsed >= m.time_limit

(***************************************************************************)
(* game.rs: the Game struct is a record g with one field per struct field  *)
(* (last_action, a display string, is left out); every method is the       *)
(* record after the call.  An Instant field holds the milliseconds elapsed *)
(* since that instant.                                                     *)
(***************************************************************************)
LOCK_DELAY == 500
MAX_LOCK_RESETS == 15
I32_MAX == 2147483647

\* Option<Piece>::None
NoPiece ==
    [piece_type |-> "None", rotation |-> "North", row |-> 0, col |-> 0, last_kick |-> 0]

IsSome(p) == p.piece_type # "None"

\* Option<ClearInfo>::None and Some(ClearInfo {..})
NoClearInfo ==
    [some |-> FALSE, lines |-> 0, is_tspin |-> FALSE, combo |-> 0, back_to_back |-> FALSE]

ClearInfo(lines, is_tspin, combo, back_to_back) ==
    [some |-> TRUE, lines |-> lines, is_tspin |-> is_tspin, combo |-> combo,
     back_to_back |-> back_to_back]

\* GameState
Countdown(n) == [tag |-> "Countdown", count |-> n]
Playing == [tag |-> "Playing", count |-> 0]
Paused == [tag |-> "Paused", count |-> 0]
GameOver == [tag |-> "GameOver", count |-> 0]
Victory == [tag |-> "Victory", count |-> 0]

\* Action
Action ==
    {"MoveLeft", "MoveRight", "SoftDrop", "HardDrop", "RotateCW", "RotateCCW",
     "Hold", "Pause", "Quit"}

\* Game::with_seed(); new_bag is the shuffle outcome bag.next() uses if it
\* refills.
with_seed(mode, seed, new_bag) ==
    LET first == bag_next(Bag_with_seed(seed), new_bag)
    IN [board |-> Board_new,
        current_piece |-> Piece_new(first.kind),
        hold_piece |-> "None",
        hold_used |-> FALSE,
        bag |-> first.queue,
        score |-> [Score_new EXCEPT !.level = starting_level(mode)],
        state |-> Countdown(3),
        mode_state |-> ModeState_new(mode),
        last_fall |-> 0,
        lock_timer |-> NoInstant,
        lock_resets |-> 0,
        lowest_row |-> I32_MAX,
        soft_drop_distance |-> 0,
        countdown_start |-> 0,
        piece_just_locked |-> FALSE,
        last_clear_info |-> NoClearInfo]

\* Game::reset_piece_state()
reset_piece_state(g) ==
    [g EXCEPT !.hold_used = FALSE,
              !.lock_timer = NoInstant,
              !.lock_resets = 0,
              !.lowest_row = I32_MAX,
              !.last_fall = 0,
              !.soft_drop_distance = 0]

\* The `corners` array of Game::detect_t_spin(), indices 0..3 as 1..4.
t_spin_corners(piece) ==
    << <<piece.row + 1, piece.col - 1>>,
       <<piece.row + 1, piece.col + 1>>,
       <<piece.row - 1, piece.col - 1>>,
       <<piece.row - 1, piece.col + 1>> >>

\* The (front_a, front_b) match of Game::detect_t_spin(), indices 0..3.
front_corners(rotation) ==
    CASE rotation = "North" -> <<2, 3>>
      [] rotation = "East" -> <<1, 3>>
      [] rotation = "South" -> <<0, 1>>
      [] rotation = "West" -> <<0, 2>>

\* Game::detect_t_spin() without its special case for kick 5.
detect_t_spin_by_front_only(cells, piece) ==
    IF ~is_t_piece(piece) \/ piece.last_kick = 0 THEN "None"
    ELSE
      LET corners == t_spin_corners(piece)
          filled_corners ==
              [i \in 1..4 |->
                  LET cell == get(cells, corners[i][1], corners[i][2])
                  IN IF cell = "None" THEN TRUE ELSE cell_is_filled(cell)]
          filled_count == Cardinality({i \in 1..4 : filled_corners[i]})
          front == front_corners(piece.rotation)
      IN IF filled_count >= 3
         THEN IF filled_corners[front[1] + 1] /\ filled_corners[front[2] + 1]
              THEN "SomeTrue"
              ELSE "SomeFalse"
         ELSE "None"

\* Game::detect_t_spin(): "SomeTrue" (T-spin), "SomeFalse" (mini) or "None".
detect_t_spin(cells, piece) ==
    IF ~is_t_piece(piece) \/ piece.last_kick = 0 THEN "None"
    ELSE
      LET corners == t_spin_corners(piece)
          filled_corners ==
              [i \in 1..4 |->
                  LET cell == get(cells, corners[i][1], corners[i][2])
                  IN IF cell = "None" THEN TRUE ELSE cell_is_filled(cell)]
          filled_count == Cardinality({i \in 1..4 : filled_corners[i]})
          front == front_corners(piece.rotation)
      IN IF filled_count >= 3
         THEN IF filled_corners[front[1] + 1] /\ filled_corners[front[2] + 1]
              THEN "SomeTrue"
              ELSE IF piece.last_kick = 5 THEN "SomeTrue" ELSE "SomeFalse"
         ELSE "None"

\* The end of Game::lock_piece() without its block-out check.
spawn_next_top_out_only(g1, positions, next_piece) ==
    IF ~are_positions_valid(g1.board, block_positions(next_piece))
    THEN [g1 EXCEPT !.state = GameOver]
    ELSE reset_piece_state([g1 EXCEPT !.current_piece = next_piece])

\* The end of Game::lock_piece() returning on a block-out without ending the
\* game.
spawn_next_block_out_in_play(g1, positions, next_piece) ==
    IF ~are_positions_valid(g1.board, block_positions(next_piece))
    THEN [g1 EXCEPT !.state = GameOver]
    ELSE IF \E i \in 1..4 : positions[i][1] >= BOARD_HEIGHT
    THEN g1
    ELSE reset_piece_state([g1 EXCEPT !.current_piece = next_piece])

\* The end of Game::lock_piece(): top out, block out, or the next piece
\* becomes the active one.  g1 is the game with the piece locked, positions
\* the cells it was locked at.
spawn_next(g1, positions, next_piece) ==
    IF ~are_positions_valid(g1.board, block_positions(next_piece))
    THEN [g1 EXCEPT !.state = GameOver]
    ELSE IF \E i \in 1..4 : positions[i][1] >= BOARD_HEIGHT
    THEN [g1 EXCEPT !.state = GameOver]
    ELSE reset_piece_state([g1 EXCEPT !.current_piece = next_piece])

\* Game::lock_piece(): new_bag is the shuffle outcome if bag.next() refills.
lock_piece(g, new_bag) ==
    IF ~IsSome(g.current_piece) THEN g
    ELSE
      Let(board_lock_piece(g.board, block_positions(g.current_piece),
                           g.current_piece.piece_type),
          LAMBDA locked :
      Let(clear_lines(locked),
          LAMBDA cl :
      Let(detect_t_spin(locked, g.current_piece),
          LAMBDA is_t_spin :
      LET piece == g.current_piece
          score1 == add_soft_drop(g.score, g.soft_drop_distance)
          positions == block_positions(piece)
          lines_cleared == cl.lines_cleared
          all_clear == board_is_empty(cl.cells)
          was_back_to_back == score1.back_to_back
          scoring == lines_cleared > 0 \/ is_t_spin # "None"
          clear_type ==
              CASE is_t_spin = "SomeTrue" -> ClearType("TSpin", lines_cleared)
                [] is_t_spin = "SomeFalse" -> ClearType("MiniTSpin", lines_cleared)
                [] OTHER -> ClearType("Regular", lines_cleared)
          nx == bag_next(g.bag, new_bag)
          next_piece == Piece_new(nx.kind)
      IN Let(IF scoring THEN add_clear(score1, clear_type, all_clear)
             ELSE reset_combo(score1),
             LAMBDA score2 :
      Let([g EXCEPT !.current_piece = NoPiece,
                    !.score = score2,
                    !.board = cl.cells,
                    !.last_clear_info =
                        IF scoring
                        THEN ClearInfo(lines_cleared, is_t_spin # "None", score2.combo,
                                       was_back_to_back
                                         /\ (lines_cleared = 4 \/ is_t_spin # "None"))
                        ELSE NoClearInfo,
                    !.piece_just_locked = TRUE,
                    !.bag = nx.queue],
          LAMBDA g1 : spawn_next(g1, positions, next_piece))))))

\* Game::try_reset_lock()
try_reset_lock(g) ==
    IF ~IsSome(g.current_piece) THEN g
    ELSE
      LET g1 == IF g.current_piece.row < g.lowest_row
                THEN [g EXCEPT !.lowest_row = g.current_piece.row, !.lock_resets = 0]
                ELSE g
      IN IF g1.lock_resets < MAX_LOCK_RESETS /\ g1.lock_timer # NoInstant
         THEN [g1 EXCEPT !.lock_timer = 0, !.lock_resets = g1.lock_resets + 1]
         ELSE g1

\* Game::move_left()
move_left(g) ==
    IF ~IsSome(g.current_piece) THEN g
    ELSE LET m == piece_move_left(g.current_piece, g.board)
         IN IF m.ok THEN try_reset_lock([g EXCEPT !.current_piece = m.piece]) ELSE g

\* Game::move_right()
move_right(g) ==
    IF ~IsSome(g.current_piece) THEN g
    ELSE LET m == piece_move_right(g.current_piece, g.board)
         IN IF m.ok THEN try_reset_lock([g EXCEPT !.current_piece = m.piece]) ELSE g

\* Game::soft_drop() counting the row and restarting the fall although the
\* piece did not move.
soft_drop_counting(g) ==
    IF ~IsSome(g.current_piece) THEN g
    ELSE LET m == piece_move_down(g.current_piece, g.board)
         IN [g EXCEPT !.current_piece = m.piece,
                      !.soft_drop_distance = g.soft_drop_distance + 1,
                      !.last_fall = 0,
                      !.lock_timer = NoInstant]

\* Game::soft_drop()
soft_drop(g) ==
    IF ~IsSome(g.current_piece) THEN g
    ELSE LET m == piece_move_down(g.current_piece, g.board)
         IN IF m.ok
            THEN [g EXCEPT !.current_piece = m.piece,
                           !.soft_drop_distance = g.soft_drop_distance + 1,
                           !.last_fall = 0,
                           !.lock_timer = NoInstant]
            ELSE g

\* Game::hard_drop() scoring the drop and locking the piece where it is.
hard_drop_in_place(g, new_bag) ==
    IF ~IsSome(g.current_piece) THEN g
    ELSE Let(piece_hard_drop(g.current_piece, g.board),
             LAMBDA d :
                 lock_piece([g EXCEPT !.score = add_hard_drop(g.score, d.distance)],
                            new_bag))

\* Game::hard_drop()
hard_drop(g, new_bag) ==
    IF ~IsSome(g.current_piece) THEN g
    ELSE Let(piece_hard_drop(g.current_piece, g.board),
             LAMBDA d :
                 lock_piece([g EXCEPT !.current_piece = d.piece,
                                      !.score = add_hard_drop(g.score, d.distance)],
                            new_bag))

\* Game::rotate()
rotate(g, direction) ==
    IF ~IsSome(g.current_piece) THEN g
    ELSE Let(piece_rotate(g.current_piece, direction, g.board),
             LAMBDA m : IF m.ok THEN try_reset_lock([g EXCEPT !.current_piece = m.piece])
                        ELSE g)

\* Game::hold() drawing from the bag although a kind is held.
hold_drawing(g, new_bag) ==
    IF g.hold_used THEN g
    ELSE IF ~IsSome(g.current_piece) THEN g
    ELSE
      LET current == g.current_piece
          nx == bag_next(g.bag, new_bag)
          next_piece == IF g.hold_piece # "None" THEN Piece_new(g.hold_piece)
                        ELSE Piece_new(nx.kind)
          g1 == [g EXCEPT !.current_piece = NoPiece,
                          !.hold_piece = current.piece_type,
                          !.bag = nx.queue]
      IN IF ~are_positions_valid(g.board, block_positions(next_piece))
         THEN [g1 EXCEPT !.state = GameOver]
         ELSE reset_piece_state([g1 EXCEPT !.current_piece = next_piece,
                                           !.hold_used = TRUE])

\* Game::hold()
hold(g, new_bag) ==
    IF g.hold_used THEN g
    ELSE IF ~IsSome(g.current_piece) THEN g
    ELSE
      LET current == g.current_piece
          nx == bag_next(g.bag, new_bag)
          next_piece == IF g.hold_piece # "None" THEN Piece_new(g.hold_piece)
                        ELSE Piece_new(nx.kind)
          g1 == [g EXCEPT !.current_piece = NoPiece,
                          !.hold_piece = current.piece_type,
                          !.bag = IF g.hold_piece # "None" THEN g.bag ELSE nx.queue]
      IN IF ~are_positions_valid(g.board, block_positions(next_piece))
         THEN [g1 EXCEPT !.state = GameOver]
         ELSE reset_piece_state([g1 EXCEPT !.current_piece = next_piece,
                                           !.hold_used = TRUE])

\* Game::process_action()
process_action(g, action, new_bag) ==
    CASE g.state.tag = "Countdown" -> g
      [] g.state.tag = "Paused" ->
           IF action = "Pause" THEN [g EXCEPT !.state = Playing, !.last_fall = 0]
           ELSE g
      [] g.state.tag = "Playing" ->
           (CASE action = "MoveLeft" -> move_left(g)
              [] action = "MoveRight" -> move_right(g)
              [] action = "SoftDrop" -> soft_drop(g)
              [] action = "HardDrop" -> hard_drop(g, new_bag)
              [] action = "RotateCW" -> rotate(g, "Clockwise")
              [] action = "RotateCCW" -> rotate(g, "CounterClockwise")
              [] action = "Hold" -> hold(g, new_bag)
              [] action = "Pause" -> [g EXCEPT !.state = Paused]
              [] action = "Quit" -> [g EXCEPT !.state = GameOver])
      [] OTHER -> g

\* `3u8.saturating_sub(elapsed as u8)` of Game::update(), elapsed in seconds.
new_count_of(elapsed_secs) ==
    LET as_u8 == elapsed_secs % 256
    IN IF as_u8 >= 3 THEN 0 ELSE 3 - as_u8

\* The countdown branch of Game::update() letting the piece fall one row
\* while the countdown runs.
update_countdown_falling(g) ==
    IF g.countdown_start # NoInstant
    THEN LET new_count == new_count_of(g.countdown_start \div 1000)
         IN IF new_count = 0
            THEN [g EXCEPT !.state = Playing,
                           !.mode_state = mode_start(g.mode_state),
                           !.last_fall = 0,
                           !.countdown_start = NoInstant]
            ELSE IF new_count # g.state.count
            THEN [g EXCEPT !.state = Countdown(new_count),
                           !.current_piece.row = g.current_piece.row - 1]
            ELSE g
    ELSE g

\* The countdown branch of Game::update().
update_countdown(g) ==
    IF g.countdown_start # NoInstant
    THEN LET new_count == new_count_of(g.countdown_start \div 1000)
         IN IF new_count = 0
            THEN [g EXCEPT !.state = Playing,
                           !.mode_state = mode_start(g.mode_state),
                           !.last_fall = 0,
                           !.countdown_start = NoInstant]
            ELSE IF new_count # g.state.count
            THEN [g EXCEPT !.state = Countdown(new_count)]
            ELSE g
    ELSE g

\* The on_ground test of Game::update().
on_ground(g) ==
    LET pos == block_positions(g.current_piece)
    IN ~are_positions_valid(g.board, [i \in 1..4 |-> <<pos[i][1] - 1, pos[i][2]>>])

\* The lock-delay and gravity part of Game::update() locking a piece on the
\* ground as soon as a lock timer exists.
update_piece_locking_at_once(g, new_bag) ==
    IF ~IsSome(g.current_piece) THEN g
    ELSE IF on_ground(g)
    THEN IF g.lock_timer # NoInstant
         THEN lock_piece(g, new_bag)
         ELSE [g EXCEPT !.lock_timer = 0]
    ELSE IF g.last_fall >= fall_speed(g.score)
    THEN [g EXCEPT !.lock_timer = NoInstant,
                   !.current_piece = piece_move_down(g.current_piece, g.board).piece,
                   !.last_fall = 0]
    ELSE [g EXCEPT !.lock_timer = NoInstant]

\* The lock-delay and gravity part of Game::update() with a gravity that
\* restarts the fall clock and leaves the piece where it is.
update_piece_floating(g, new_bag) ==
    IF ~IsSome(g.current_piece) THEN g
    ELSE IF on_ground(g)
    THEN IF g.lock_timer # NoInstant
         THEN IF g.lock_timer >= LOCK_DELAY THEN lock_piece(g, new_bag) ELSE g
         ELSE [g EXCEPT !.lock_timer = 0]
    ELSE IF g.last_fall >= fall_speed(g.score)
    THEN [g EXCEPT !.lock_timer = NoInstant, !.last_fall = 0]
    ELSE [g EXCEPT !.lock_timer = NoInstant]

\* The lock-delay and gravity part of Game::update(), state Playing.
update_piece(g, new_bag) ==
    IF ~IsSome(g.current_piece) THEN g
    ELSE IF on_ground(g)
    THEN IF g.lock_timer # NoInstant
         THEN IF g.lock_timer >= LOCK_DELAY THEN lock_piece(g, new_bag) ELSE g
         ELSE [g EXCEPT !.lock_timer = 0]
    ELSE IF g.last_fall >= fall_speed(g.score)
    THEN [g EXCEPT !.lock_timer = NoInstant,
                   !.current_piece = piece_move_down(g.current_piece, g.board).piece,
                   !.last_fall = 0]
    ELSE [g EXCEPT !.lock_timer = NoInstant]

\* Game::update() without its `state != Playing` return.
update_any_state(g, new_bag) ==
    IF g.state.tag = "Countdown" THEN update_countdown(g)
    ELSE update_piece(g, new_bag)

\* Game::update()
update(g, new_bag) ==
    IF g.state.tag = "Countdown" THEN update_countdown(g)
    ELSE IF g.state # Playing THEN g
    ELSE
      LET g1 == [g EXCEPT !.mode_state = mode_update(g.mode_state)]
          g2 == IF is_complete(g1.mode_state, g1.score.lines)
                THEN [g1 EXCEPT !.state =
                         CASE g1.mode_state.mode = "Sprint" -> Victory
                           [] g1.mode_state.mode = "Ultra" -> GameOver
                           [] OTHER -> Playing]
                ELSE g1
      IN IF g2.state # Playing THEN g2 ELSE update_piece(g2, new_bag)

(***************************************************************************)
(* The state: the fields of one Game, and history variables, named h_..,   *)
(* that record what has happened so far and are read by no operation.      *)
(***************************************************************************)
VARIABLES board, current_piece, hold_piece, hold_used, bag, score, state,
          mode_state, last_fall, lock_timer, lock_resets, lowest_row,
          soft_drop_distance, countdown_start, piece_just_locked, last_clear_info,
          h_inputs, h_ticks, h_locks, h_holds, h_low, h_timer_sets, h_play_ms,
          h_term_calls

game_vars ==
    <<board, current_piece, hold_piece, hold_used, bag, score, state,
      mode_state, last_fall, lock_timer, lock_resets, lowest_row,
      soft_drop_distance, countdown_start, piece_just_locked, last_clear_info>>

hist_vars ==
    <<h_inputs, h_ticks, h_locks, h_holds, h_low, h_timer_sets, h_play_ms,
      h_term_calls>>

\* State of the component checks: a Bag driven on its own next to a second
\* Bag (bag is the first), a Board on which clear_lines is called alone, and
\* the arguments and results of the calls made on one component alone.
VARIABLES h_seed, draws, other_bag, other_draws, h_board_in, h_cleared,
          h_args, h_results

aux_vars ==
    <<h_seed, draws, other_bag, other_draws, h_board_in, h_cleared,
      h_args, h_results>>

\* State of a versus match (multiplayer.rs, main.rs): the MultiplayerSession
\* of each player with its two channels, the host's Game (the game variables
\* above are then the guest's Game), the messages written to the stream and
\* not yet read by the player they are for, and the position of each player's
\* network task.
VARIABLES session, host_game, stream, task

versus_vars == <<session, host_game, stream, task>>

vars == <<game_vars, hist_vars, aux_vars, versus_vars>>

\* The Game as a record, and its assignment to the next state.
G ==
    [board |-> board, current_piece |-> current_piece, hold_piece |-> hold_piece,
     hold_used |-> hold_used, bag |-> bag, score |-> score, state |-> state,
     mode_state |-> mode_state, last_fall |-> last_fall, lock_timer |-> lock_timer,
     lock_resets |-> lock_resets, lowest_row |-> lowest_row,
     soft_drop_distance |-> soft_drop_distance, countdown_start |-> countdown_start,
     piece_just_locked |-> piece_just_locked, last_clear_info |-> last_clear_info]

SetGame(g) ==
    /\ board' = g.board
    /\ current_piece' = g.current_piece
    /\ hold_piece' = g.hold_piece
    /\ hold_used' = g.hold_used
    /\ bag' = g.bag
    /\ score' = g.score
    /\ state' = g.state
    /\ mode_state' = g.mode_state
    /\ last_fall' = g.last_fall
    /\ lock_timer' = g.lock_timer
    /\ lock_resets' = g.lock_resets
    /\ lowest_row' = g.lowest_row
    /\ soft_drop_distance' = g.soft_drop_distance
    /\ countdown_start' = g.countdown_start
    /\ piece_just_locked' = g.piece_just_locked
    /\ last_clear_info' = g.last_clear_info

IsGame(g) ==
    /\ board = g.board
    /\ current_piece = g.current_piece
    /\ hold_piece = g.hold_piece
    /\ hold_used = g.hold_used
    /\ bag = g.bag
    /\ score = g.score
    /\ state = g.state
    /\ mode_state = g.mode_state
    /\ last_fall = g.last_fall
    /\ lock_timer = g.lock_timer
    /\ lock_resets = g.lock_resets
    /\ lowest_row = g.lowest_row
    /\ soft_drop_distance = g.soft_drop_distance
    /\ countdown_start = g.countdown_start
    /\ piece_just_locked = g.piece_just_locked
    /\ last_clear_info = g.last_clear_info

(***************************************************************************)
(* Bounds of the model.                                                    *)
(***************************************************************************)
\* Milliseconds that pass in one Tick.
TickMs == 500
\* process_action calls explored in one game.
MaxInputs == 3
\* Ticks explored in one game.
MaxTicks == 3
\* Seeds handed to Game::with_seed: 0..MaxSeed.
MaxSeed == 1

Min(a, b) == IF a < b THEN a ELSE b

\* An elapsed time d milliseconds later, saturating at cap; None stays None.
later(t, d, cap) == IF t = NoInstant THEN NoInstant ELSE Min(t + d, cap)

\* The largest value fall_speed() takes (level 1).
FALL_SAT == fall_speed_table[1]
\* The countdown is over once 3 whole seconds have passed.
COUNTDOWN_SAT == 3 * 1000

\* d milliseconds pass: every Instant of the game is d milliseconds older.
\* mode_state.start_time is read (through elapsed) only by Ultra's time
\* limit; for the other modes it is kept at its start value.
elapse(g, d) ==
    [g EXCEPT !.last_fall = later(g.last_fall, d, FALL_SAT),
              !.lock_timer = later(g.lock_timer, d, LOCK_DELAY),
              !.countdown_start = later(g.countdown_start, d, COUNTDOWN_SAT),
              !.mode_state.start_time =
                  IF g.mode_state.mode = "Ultra"
                  THEN later(g.mode_state.start_time, d, g.mode_state.time_limit)
                  ELSE g.mode_state.start_time]

(***************************************************************************)
(* History.                                                                *)
(***************************************************************************)
\* A call locked a piece: lock_piece is the only caller of bag.next() besides
\* hold, and every bag.next() changes the queue.
Locked(g, g2, op) == op # "Hold" /\ g2.bag # g.bag

\* A Hold took the active piece away (swapped it, or failed to spawn).
HoldTook(g, g2, op) == op = "Hold" /\ g2.current_piece # g.current_piece

\* A call set lock_timer to Some(Instant::now()): update() starting it, or
\* try_reset_lock() restarting it (which also counts the reset).
TimerSet(g, g2, op) ==
    \/ op = "update" /\ g.lock_timer = NoInstant /\ g2.lock_timer = 0
    \/ /\ op \in {"MoveLeft", "MoveRight", "RotateCW", "RotateCCW"}
       /\ g2.current_piece # g.current_piece
       /\ g2.lock_timer = 0
       /\ \/ g2.lowest_row < g.lowest_row /\ g2.lock_resets = 1
          \/ g2.lowest_row = g.lowest_row /\ g2.lock_resets = g.lock_resets + 1

\* The row of the active piece's pivot; NoRow when there is none.
NoRow == TOTAL_HEIGHT
row_of(p) == IF IsSome(p) THEN p.row ELSE NoRow

\* The lowest row the piece of g2 has reached, given that low was the lowest
\* before the call: a new piece (after a lock or a hold) starts afresh.
low_after(low, g, g2, op) ==
    IF Locked(g, g2, op) \/ HoldTook(g, g2, op) THEN row_of(g2.current_piece)
    ELSE Min(low, row_of(g2.current_piece))

\* h_timer_sets and h_term_calls saturate here.
TIMER_SETS_SAT == MAX_LOCK_RESETS + 2
TERM_CALLS_SAT == 2

Terminal(st) == st.tag \in {"GameOver", "Victory"}

\* op is a call (an Action for process_action, or "update") that took the
\* game from g to g2.
SetHistory(g, g2, op) ==
    /\ h_locks' = IF Locked(g, g2, op) THEN h_locks + 1 ELSE h_locks
    /\ h_holds' = IF Locked(g, g2, op) THEN 0
                  ELSE IF HoldTook(g, g2, op) THEN Min(h_holds + 1, 2)
                  ELSE h_holds
    /\ h_low' = low_after(h_low, g, g2, op)
    /\ h_timer_sets' =
          IF low_after(h_low, g, g2, op) # h_low THEN 0
          ELSE IF TimerSet(g, g2, op) THEN Min(h_timer_sets + 1, TIMER_SETS_SAT)
          ELSE h_timer_sets
    /\ h_play_ms' = IF g2.lock_timer = NoInstant \/ g2.lock_timer = 0 THEN 0
                    ELSE h_play_ms
    /\ h_term_calls' = IF Terminal(g.state)
                       THEN Min(h_term_calls + 1, TERM_CALLS_SAT)
                       ELSE h_term_calls

(***************************************************************************)
(* Actions.                                                                *)
(***************************************************************************)
\* The shuffle outcomes a call may see: they matter only if bag.next() refills.
RefillOutcomes(queue) ==
    IF Len(queue) <= 7 THEN ShuffleOutcomes ELSE {Shuffled(0)}

\* One call on the game: process_action(op) for an Action, update()
\* otherwise.
Call(op) ==
    \E new_bag \in RefillOutcomes(bag) :
        \E g2 \in {IF op \in Action THEN process_action(G, op, new_bag)
                   ELSE update(G, new_bag)} :
            SetGame(g2) /\ SetHistory(G, g2, op) /\ UNCHANGED <<aux_vars, versus_vars>>

\* TickMs milliseconds pass.
Pass ==
    /\ \E g2 \in {elapse(G, TickMs)} : SetGame(g2)
    /\ h_play_ms' = IF state = Playing /\ lock_timer # NoInstant
                    THEN Min(h_play_ms + TickMs, LOCK_DELAY) ELSE h_play_ms
    /\ UNCHANGED <<h_locks, h_holds, h_low, h_timer_sets, h_term_calls>>
    /\ UNCHANGED <<aux_vars, versus_vars>>

\* The player: one call of process_action.
ProcessAction(action) ==
    /\ h_inputs < MaxInputs
    /\ Call(action)
    /\ h_inputs' = h_inputs + 1
    /\ h_ticks' = h_ticks

\* The frame driver: one call of update.
Update == Call("update") /\ UNCHANGED <<h_inputs, h_ticks>>

\* Time passes.
Tick ==
    /\ h_ticks < MaxTicks
    /\ ~Terminal(state)
    /\ Pass
    /\ h_ticks' = h_ticks + 1
    /\ h_inputs' = h_inputs

InitHistory ==
    /\ h_inputs = 0
    /\ h_ticks = 0
    /\ h_locks = 0
    /\ h_holds = 0
    /\ h_low = row_of(current_piece)
    /\ h_timer_sets = 0
    /\ h_play_ms = 0
    /\ h_term_calls = 0

\* No seed, and no count returned yet.
NoSeed == 0 - 1
NoCount == 0 - 1

\* No versus match: no session, no stream and no network task exist.
InitNoVersus ==
    /\ session = <<>>
    /\ host_game = <<>>
    /\ stream = <<>>
    /\ task = <<>>

InitAux ==
    /\ h_seed = NoSeed
    /\ draws = <<>>
    /\ other_bag = <<>>
    /\ other_draws = <<>>
    /\ h_board_in = Board_new
    /\ h_cleared = NoCount
    /\ h_args = <<>>
    /\ h_results = <<>>
    /\ InitNoVersus

Seeds == 0..MaxSeed

\* A freshly constructed game.
Fresh ==
    {with_seed(mode, seed, new_bag) :
        mode \in {"Marathon"}, seed \in Seeds, new_bag \in ShuffleOutcomes}

(***************************************************************************)
(* Games in progress: each is the game a sequence of calls leaves behind,  *)
(* starting from a game freshly constructed with seed 0, every later       *)
(* shuffle coming out as Shuffled(0).                                      *)
(***************************************************************************)
\* One call: an Action (process_action), "update", or "tick" (TickMs pass).
step(g, op) ==
    CASE op = "tick" -> elapse(g, TickMs)
      [] op = "update" -> update(g, Shuffled(0))
      [] OTHER -> process_action(g, op, Shuffled(0))

\* The game after the calls ops[lo], ..., ops[hi] on g, the first half of the
\* calls made before the second.
RECURSIVE replay_range(_, _, _, _)
replay_range(g, ops, lo, hi) ==
    IF lo > hi THEN g
    ELSE IF lo = hi THEN Let(g, LAMBDA x : step(x, ops[lo]))
    ELSE Let(replay_range(g, ops, lo, (lo + hi) \div 2),
             LAMBDA half : replay_range(half, ops, (lo + hi) \div 2 + 1, hi))

\* The game after the calls ops[i], ops[i+1], ... on g.
replay(g, ops, i) == Let(ops, LAMBDA calls : replay_range(g, calls, i, Len(calls)))

\* n copies of op.
times(n, op) == [i \in 1..n |-> op]

\* The countdown runs out and the first update starts the game.
Started ==
    replay(with_seed("Marathon", 0, Shuffled(0)),
           times(COUNTDOWN_SAT \div TickMs + 1, "tick") \o <<"update">>, 1)

\* The Z piece is dropped one column left of its spawn column; the T piece is
\* turned East, moved to the left wall and soft-dropped to the floor.
TSlot ==
    replay(Started,
           <<"MoveLeft", "HardDrop", "RotateCW">> \o times(4, "MoveLeft")
             \o times(20, "SoftDrop"), 1)

\* Eleven pieces are dropped where they spawn.
Tall == replay(Started, times(11, "HardDrop"), 1)

\* n copies of the sequence ops.
RECURSIVE repeat(_, _)
repeat(n, ops) == IF n = 0 THEN <<>> ELSE ops \o repeat(n - 1, ops)

\* Eleven pieces are dropped three columns left of where they spawn, and the
\* twelfth is moved above them.
TallLeft ==
    replay(Started,
           repeat(11, times(3, "MoveLeft") \o <<"HardDrop">>)
             \o times(3, "MoveLeft"), 1)

\* The countdown is in its last second.
Counting ==
    replay(with_seed("Marathon", 0, Shuffled(0)),
           times(COUNTDOWN_SAT \div TickMs - 1, "tick") \o <<"update">>, 1)

\* The Z piece is held and the T piece soft-dropped to the floor of the
\* empty board.
Floor == replay(Started, <<"Hold">> \o times(21, "SoftDrop"), 1)

InProgress == {Counting, Started, TSlot, Tall, TallLeft}

Init ==
    /\ \E g \in Fresh \cup InProgress : IsGame(g)
    /\ InitHistory
    /\ InitAux

Next ==
    \/ \E action \in Action : ProcessAction(action)
    \/ Update
    \/ Tick

Spec == Init /\ [][Next]_vars

\* A step made by update() on a game in play with an active piece.
UpdateInPlay ==
    /\ h_inputs' = h_inputs
    /\ h_ticks' = h_ticks
    /\ state = Playing
    /\ IsSome(current_piece)

\* C31: update() locks the active piece only if the piece is on the ground
\* and the lock timer, set by an earlier call, has run for at least 500 ms;
\* an update() that goes on in play and finds the piece on the ground with no
\* timer only starts the timer, and one that finds the piece off the ground
\* leaves no timer.
C31_LockAfterDelayOnGround ==
    [][UpdateInPlay =>
          /\ h_locks' > h_locks =>
                /\ on_ground(G)
                /\ lock_timer # NoInstant
                /\ lock_timer >= LOCK_DELAY
          /\ (on_ground(G) /\ lock_timer = NoInstant /\ state' = Playing) =>
                /\ lock_timer' = 0
                /\ h_locks' = h_locks
                /\ board' = board
                /\ current_piece' = current_piece
          /\ (~on_ground(G) /\ state' = Playing) =>
                /\ lock_timer' = NoInstant
                /\ h_locks' = h_locks]_vars

\* The T piece of TSlot has been locked by update() alone, one tick after its
\* lock timer was started.
C31_Witness ==
    /\ h_locks = 1
    /\ h_inputs = 0
    /\ h_ticks = 1
    /\ state = Playing
    /\ lock_timer = NoInstant
    /\ board[0][0] = color("T")
    /\ board[2][0] = color("T")

\* C3: Hold is used at most once per piece: h_holds counts the Hold actions
\* that took the active piece away since the last lock, and after the first
\* one every further Hold is a no-op, so the count never passes 1.
C3_HoldOncePerPiece == h_holds <= 1

\* The cell (row + dr, col + dc) next to the pivot of piece p is filled on
\* the board, or lies outside it.
Diagonal(p, dr, dc) ==
    LET r == p.row + dr
        c == p.col + dc
    IN IF r \in Rows /\ c \in Cols THEN board[r][c] # "Empty" ELSE TRUE

\* The two diagonals on the side the T faces, rows increasing upward.
Front(p) ==
    CASE p.rotation = "North" -> {<<1, 0 - 1>>, <<1, 1>>}
      [] p.rotation = "East" -> {<<0 - 1, 1>>, <<1, 1>>}
      [] p.rotation = "South" -> {<<0 - 1, 0 - 1>>, <<0 - 1, 1>>}
      [] p.rotation = "West" -> {<<0 - 1, 0 - 1>>, <<1, 0 - 1>>}

FilledDiagonals(p) ==
    Cardinality({d \in {<<1, 0 - 1>>, <<1, 1>>, <<0 - 1, 0 - 1>>, <<0 - 1, 1>>} :
                    Diagonal(p, d[1], d[2])})

\* A T piece rests where a lock would take it as it is, after a rotation
\* that used kick 1..4, with at least 3 of its 4 diagonals filled.
TSpinCase ==
    /\ state = Playing
    /\ IsSome(current_piece)
    /\ is_t_piece(current_piece)
    /\ current_piece.last_kick \in 1..4
    /\ on_ground(G)
    /\ FilledDiagonals(current_piece) >= 3

\* C5: a T piece that locks with last_kick in 1..4 and at least 3 filled
\* diagonals is classified as a full T-spin exactly when both diagonals on
\* the side it faces (North = row + 1, East = col + 1, South = row - 1,
\* West = col - 1) are filled, and as a Mini T-spin otherwise.
C5_TSpinByFrontDiagonals ==
    TSpinCase =>
        detect_t_spin(board_lock_piece(board, block_positions(current_piece),
                                       current_piece.piece_type),
                      current_piece)
          = IF \A d \in Front(current_piece) : Diagonal(current_piece, d[1], d[2])
            THEN "SomeTrue" ELSE "SomeFalse"

\* C6: a Quit action takes every state that is not terminal (Countdown,
\* Playing, Paused) to GameOver at once.
C6_QuitForcesGameOver ==
    ~Terminal(state) => process_action(G, "Quit", Shuffled(0)).state = GameOver

\* C7: time that passes while the game is Paused does not count toward the
\* lock delay: when update() locks a piece, its lock timer has run for at
\* least 500 ms of Playing time (h_play_ms) since it was last set.
C7_PauseFreezesLockDelay ==
    [][(h_locks' = h_locks + 1 /\ h_inputs' = h_inputs)
          => h_play_ms >= LOCK_DELAY]_vars

FullRows(b) == {r \in Rows : \A c \in Cols : b[r][c] # "Empty"}

\* The rows of board b that are not full, from the bottom up.
KeptRows(b) ==
    Let(FullRows(b),
        LAMBDA full :
            SelectSeq([i \in 1..TOTAL_HEIGHT |-> i - 1], LAMBDA r : r \notin full))

\* The cells the active piece is locked at by a step that locks it: where
\* it lands (a lock by update() finds it landed already).
LandingCells == block_positions(piece_hard_drop(current_piece, board).piece)

\* C10: a lock that leaves a cell of the piece at row >= 20, or after which
\* the next piece's spawn cells are not all valid, sets GameOver in that same
\* step and installs no new active piece.
C10_LockOutEndsGame ==
    [][(/\ h_locks' = h_locks + 1
        /\ \/ \E i \in 1..4 : LandingCells[i][1] >= BOARD_HEIGHT
           \/ ~are_positions_valid(
                  board', block_positions(Piece_new(bag_next(bag, Shuffled(0)).kind))))
          => (state' = GameOver /\ current_piece' = NoPiece)]_vars

\* A lock (nothing was ever held, so it was no Hold) ended the game with a
\* locked cell above the visible rows, although every kind could have
\* spawned, and left no active piece.
C10_Witness ==
    /\ state = GameOver
    /\ current_piece = NoPiece
    /\ hold_piece = "None"
    /\ h_locks >= 1
    /\ \E r \in BOARD_HEIGHT..(TOTAL_HEIGHT - 1), c \in Cols : board[r][c] # "Empty"
    /\ \A kind \in TetrominoType :
          are_positions_valid(board, block_positions(Piece_new(kind)))

\* The active piece where a step that locks it finds it landed, and the rows
\* it descends to get there.
Landing == piece_hard_drop(current_piece, board)

\* The board with the active piece locked where it lands, before lines are
\* cleared.
LockedBoard == board_lock_piece(board, LandingCells, current_piece.piece_type)

\* A step locks the active piece, which completes no row and is not
\* classified as a T-spin of either kind.
PlainLock ==
    /\ h_locks' = h_locks + 1
    /\ FullRows(LockedBoard) = {}
    /\ detect_t_spin(LockedBoard, Landing.piece) = "None"

LockedClear ==
    LET is_t_spin == detect_t_spin(LockedBoard, Landing.piece)
        n == Cardinality(FullRows(LockedBoard))
    IN CASE is_t_spin = "SomeTrue" -> ClearType("TSpin", n)
         [] is_t_spin = "SomeFalse" -> ClearType("MiniTSpin", n)
         [] OTHER -> ClearType("Regular", n)

\* C18: the ClearInfo a lock stores has back_to_back set exactly when the
\* clear was difficult and back_to_back was active before it, which is when
\* add_clear multiplied the clear's score by 3/2.
C18_ClearInfoBackToBack ==
    [][(h_locks' = h_locks + 1 /\ last_clear_info'.some) =>
          (last_clear_info'.back_to_back
              <=> (score.back_to_back /\ clear_table(LockedClear).is_difficult))]_vars

\* The active piece d rows further down.
Lowered(d) == [current_piece EXCEPT !.row = current_piece.row - d]

\* The rows the active piece can descend: every step down to there is valid
\* and the next is not.
DropRows ==
    CHOOSE d \in 0..TOTAL_HEIGHT :
        /\ ~are_positions_valid(board, block_positions(Lowered(d + 1)))
        /\ \A k \in 0..d : are_positions_valid(board, block_positions(Lowered(k)))

\* The board with the given cells filled with the colour of the active piece.
Filled(cells) ==
    [r \in Rows |-> [c \in Cols |->
        IF <<r, c>> \in cells THEN color(current_piece.piece_type) ELSE board[r][c]]]

\* What add_clear adds for a lock that leaves the board `locked`, with n full
\* rows, before the lines are cleared and is classified `spin` by
\* detect_t_spin; nothing is added when no row is full and there is no T-spin.
ClearGain(locked, n, spin) ==
    LET all_clear == \A r \in Rows :
                         \/ locked[r] = EmptyRow
                         \/ \A c \in Cols : locked[r][c] # "Empty"
        clear_type == CASE spin = "SomeTrue" -> ClearType("TSpin", n)
                        [] spin = "SomeFalse" -> ClearType("MiniTSpin", n)
                        [] OTHER -> ClearType("Regular", n)
    IN IF n = 0 /\ spin = "None" THEN 0
       ELSE add_clear(score, clear_type, all_clear).points - score.points

\* C14: HardDrop in state Playing locks the active piece in the same call, at
\* the lowest place it can descend to in a straight line, and adds to points
\* exactly twice the rows descended, the soft-drop rows of the piece and the
\* score of the clear.
C14_HardDropLocksAndScores ==
    (state = Playing /\ IsSome(current_piece)) =>
        \A new_bag \in RefillOutcomes(bag) :
        \A g2 \in {process_action(G, "HardDrop", new_bag)} :
        \A d \in {DropRows} :
        \A landed \in {IF d = 0 THEN current_piece
                        ELSE [Lowered(d) EXCEPT !.last_kick = 0]} :
        \A locked \in {Filled({block_positions(landed)[i] : i \in 1..4})} :
        \A kept \in {KeptRows(locked)} :
            /\ g2.piece_just_locked
            /\ g2.bag = bag_next(bag, new_bag).queue
            /\ g2.current_piece # landed
            /\ \A r \in Rows :
                  g2.board[r] = IF r < Len(kept) THEN locked[kept[r + 1]]
                                ELSE EmptyRow
            /\ g2.score.points
                  = score.points + 2 * d + soft_drop_distance
                      + ClearGain(locked, TOTAL_HEIGHT - Len(kept),
                                  detect_t_spin(locked, landed))

\* The first lock of a Sprint game in progress was a hard drop, with no time
\* passed, of a piece soft-dropped an odd number of rows, and it cleared the
\* 40th line.
C14_Witness ==
    /\ h_locks = 1
    /\ h_ticks = 0
    /\ piece_just_locked
    /\ mode_state.mode = "Sprint"
    /\ score.lines = TARGET_LINES
    /\ score.points % 2 = 1

(***************************************************************************)
(* Mode completion: games of each mode shortly before the mode's end.      *)
(***************************************************************************)
\* The countdown of a game of the given mode runs out and the first update
\* starts the game.
StartedIn(mode) ==
    replay(with_seed(mode, 0, Shuffled(0)),
           times(COUNTDOWN_SAT \div TickMs + 1, "tick") \o <<"update">>, 1)

\* Where each of the first pieces is dropped: <<n, k>> is n clockwise
\* rotations, then k moves to the right (to the left if k < 0).
Placements ==
    << <<0, 1>>, <<0, 4>>, <<0, -3>>, <<3, 3>>, <<1, 4>>, <<0, -4>>, <<1, -2>>, <<0, 0>>,
       <<2, 1>>, <<2, 4>>, <<1, -1>>, <<0, -3>>, <<1, -4>>, <<0, 1>>, <<0, -2>>, <<0, 4>>,
       <<0, 1>>, <<2, 4>>, <<1, -2>>, <<0, -4>>, <<0, 4>>, <<0, 0>>, <<3, 2>>, <<0, -3>>,
       <<2, -1>>, <<0, 4>>, <<0, -4>>, <<2, 2>>, <<0, -2>>, <<1, -4>>, <<0, 1>>, <<3, 5>>,
       <<1, -2>>, <<0, 3>>, <<0, 1>>, <<0, 0>>, <<2, -3>>, <<0, 2>>, <<0, -3>>, <<1, 4>>,
       <<0, -1>>, <<0, 2>>, <<0, 1>>, <<0, -2>>, <<0, 3>>, <<2, 4>>, <<1, -2>>, <<0, -4>>,
       <<0, 1>>, <<0, 0>>, <<0, 4>>, <<1, 4>>, <<0, 2>>, <<0, -3>>, <<0, -1>>, <<2, -3>>,
       <<0, 2>>, <<3, 4>>, <<0, 0>>, <<0, -3>>, <<1, 2>>, <<0, 0>>, <<0, -2>>, <<0, 4>>,
       <<0, -3>>, <<0, -1>>, <<2, 4>>, <<1, 1>>, <<0, -1>>, <<2, -3>>, <<0, 3>>, <<3, 5>>,
       <<0, 2>>, <<0, -3>>, <<1, -4>>, <<0, -2>>, <<2, 1>>, <<0, -3>>, <<0, 0>>, <<0, 3>>,
       <<2, 2>>, <<0, -1>>, <<0, 4>>, <<1, -4>>, <<0, 1>>, <<2, -2>>, <<0, -2>>, <<0, 4>>,
       <<1, 1>>, <<0, 4>>, <<2, 4>>, <<1, 0>>, <<1, 2>>, <<0, -3>>, <<3, 5>>, <<0, -1>>,
       <<0, 3>>, <<2, -3>>, <<1, -3>>, <<1, -4>>, <<0, 0>> >>

\* The calls that bring a piece over its place.
aim(place) ==
    times(place[1], "RotateCW")
      \o (IF place[2] < 0 THEN times(0 - place[2], "MoveLeft")
          ELSE times(place[2], "MoveRight"))

\* The calls that drop pieces lo..hi in their places.
RECURSIVE drops(_, _, _)
drops(places, lo, hi) ==
    IF lo > hi THEN <<>>
    ELSE IF lo = hi THEN aim(places[lo]) \o <<"HardDrop">>
    ELSE drops(places, lo, (lo + hi) \div 2)
           \o drops(places, (lo + hi) \div 2 + 1, hi)

\* All pieces but the last are dropped in their places, which clears 39
\* lines; the last is over its place, where it clears one more.
NearTarget(mode) ==
    replay(StartedIn(mode),
           drops(Placements, 1, Len(Placements) - 1)
             \o aim(Placements[Len(Placements)]), 1)

\* An Ultra game is paused as soon as it has started and resumed shortly
\* before its time limit.
LongPause ==
    replay(StartedIn("Ultra"),
           <<"Pause">> \o times(TIME_LIMIT_MS \div TickMs - 2, "tick")
             \o <<"Pause">>, 1)

NearEnd == {NearTarget("Sprint"), NearTarget("Marathon"), LongPause}

InitMode ==
    /\ \E g \in NearEnd : IsGame(g)
    /\ InitHistory
    /\ InitAux

\* process_action calls and ticks explored from a game near its end.
MaxEndInputs == 2
MaxEndTicks == 2

NextMode ==
    \/ \E action \in Action : h_inputs < MaxEndInputs /\ ProcessAction(action)
    \/ Update
    \/ h_ticks < MaxEndTicks /\ Tick

SpecMode == InitMode /\ [][NextMode]_vars

\* A step made by update(): neither an input nor a tick.
ByUpdate == h_inputs' = h_inputs /\ h_ticks' = h_ticks

\* C11: the state becomes Victory only in Sprint mode and only with at least
\* 40 lines in total; in Marathon and Ultra the state is never Victory; and
\* the update of an Ultra game in play whose time limit has been reached
\* leaves the state GameOver.
C11_VictoryOnlySprint ==
    [][/\ state' = Victory =>
            mode_state.mode = "Sprint" /\ score'.lines >= TARGET_LINES
       /\ mode_state.mode \in {"Marathon", "Ultra"} => state' # Victory
       /\ (/\ ByUpdate
           /\ state = Playing
           /\ mode_state.mode = "Ultra"
           /\ mode_state.start_time >= TIME_LIMIT_MS) => state' = GameOver]_vars

\* A Sprint game has reached Victory with 40 lines.
C11_Witness ==
    state = Victory /\ mode_state.mode = "Sprint" /\ score.lines = TARGET_LINES

(***************************************************************************)
(* Games of every state: the fresh games and the games in progress next    *)
(* to the games shortly before their mode's end.                           *)
(***************************************************************************)
InitStates == Init \/ InitMode

SpecStates == InitStates /\ [][NextMode]_vars

InitDriven ==
    /\ \E g \in {Started, Tall, NearTarget("Sprint"), LongPause} : IsGame(g)
    /\ InitHistory
    /\ InitAux

\* TickMs milliseconds pass between two calls of update().
TimeAdvances == ~Terminal(state) /\ Pass /\ UNCHANGED <<h_inputs, h_ticks>>

\* The frame driver: one call of update() on the game as it is.
DriverUpdate ==
    /\ \E new_bag \in RefillOutcomes(bag) :
       \E g \in {G} :
       \E g2 \in {update(g, new_bag)} : SetGame(g2) /\ SetHistory(g, g2, "update")
    /\ UNCHANGED <<aux_vars, versus_vars, h_inputs, h_ticks>>

NextDriven == DriverUpdate \/ TimeAdvances

\* update() keeps being called and time keeps advancing.
SpecDriven ==
    /\ InitDriven
    /\ [][NextDriven]_vars
    /\ WF_vars(DriverUpdate)
    /\ WF_vars(TimeAdvances)

\* The parity of the number of locks: it changes exactly when a piece locks.
LockParity == h_locks % 2

\* C38 as stated: from any Playing state the active piece eventually locks,
\* and a Marathon game eventually reaches GameOver.
C38_PieceLocksGameEnds ==
    /\ \A b \in {0, 1} :
          (state = Playing /\ LockParity = b) ~> (LockParity # b)
    /\ (state = Playing /\ mode_state.mode = "Marathon") ~> (state = GameOver)

\* C38 amended: from any Playing state the active piece eventually locks
\* unless the mode completes first (the time limit of Ultra ends the game, the
\* target of Sprint is found reached), and a Marathon game eventually reaches
\* GameOver.
C38_PieceLocksOrModeCompletes ==
    /\ \A b \in {0, 1} :
          (state = Playing /\ LockParity = b)
             ~> \/ LockParity # b
                \/ mode_state.mode = "Ultra" /\ state = GameOver
                \/ mode_state.mode = "Sprint" /\ state = Victory
    /\ (state = Playing /\ mode_state.mode = "Marathon") ~> (state = GameOver)

\* A Marathon game that began with an empty board has ended after ten or more
\* pieces fell and locked without any action of the player.
C38_Witness ==
    /\ state = GameOver
    /\ mode_state.mode = "Marathon"
    /\ h_inputs = 0
    /\ h_locks >= 10
    /\ score.points = 0

(***************************************************************************)
(* Stalling: one piece on the floor, a player who only rotates it, until   *)
(* it locks.                                                               *)
(***************************************************************************)
InitStall == (\E g \in {Floor} : IsGame(g)) /\ InitHistory /\ InitAux

Spin == h_locks = 0 /\ Call("RotateCW") /\ UNCHANGED <<h_inputs, h_ticks>>

Frame == h_locks = 0 /\ Call("update") /\ UNCHANGED <<h_inputs, h_ticks>>

Wait == h_locks = 0 /\ Pass /\ UNCHANGED <<h_inputs, h_ticks>>

NextStall == Spin \/ Frame \/ Wait

SpecStall == InitStall /\ [][NextStall]_vars

\* C4: once a piece no longer reaches a new lowest row, its lock timer is
\* started once and restarted at most 15 times; h_timer_sets counts the times
\* the timer was set since the piece reached its lowest row.
C4_StallBounded == h_timer_sets <= MAX_LOCK_RESETS + 1

\* A successful move or rotation of the active piece: the same piece in
\* another column or rotation.
MovedOrRotated ==
    /\ h_locks' = h_locks
    /\ h_holds' = h_holds
    /\ IsSome(current_piece)
    /\ \/ current_piece'.col # current_piece.col
       \/ current_piece'.rotation # current_piece.rotation

\* C30: the reset counter never exceeds 15; it is zero after a successful
\* move or rotation that leaves the piece on a new lowest row and after a new
\* piece has spawned; and a successful move or rotation made with the counter
\* at 15 that reaches no new lowest row leaves the running lock timer as it
\* was.
C30_ResetCounter ==
    [][/\ lock_resets <= MAX_LOCK_RESETS
       /\ lock_resets' <= MAX_LOCK_RESETS
       /\ (MovedOrRotated /\ lowest_row' < lowest_row) => lock_resets' = 0
       /\ ((h_locks' > h_locks \/ h_holds' > h_holds) /\ state' = Playing)
             => lock_resets' = 0
       /\ (/\ MovedOrRotated
           /\ lock_resets = MAX_LOCK_RESETS
           /\ lowest_row' = lowest_row
           /\ lock_timer # NoInstant) => lock_timer' = lock_timer]_vars

(***************************************************************************)
(* The Bag alone: two Bags, each drawn from by next().                     *)
(***************************************************************************)
\* Draws explored from one Bag.
MaxDraws == 21

\* The fields of the Game around the Bag take no part.
Idle == with_seed("Marathon", 0, Shuffled(0))

\* Both Bags are built by Bag::with_seed with one seed, or the first by
\* Bag::new (h_seed = NoSeed) and the second by Bag::with_seed.
InitBag ==
    /\ \/ \E seed \in Seeds :
             /\ h_seed = seed
             /\ IsGame([Idle EXCEPT !.bag = Bag_with_seed(seed)])
             /\ other_bag = Bag_with_seed(seed)
       \/ \E new_bag1 \in ShuffleOutcomes, new_bag2 \in ShuffleOutcomes,
             seed \in Seeds :
             /\ h_seed = NoSeed
             /\ IsGame([Idle EXCEPT !.bag = Bag_new(new_bag1, new_bag2)])
             /\ other_bag = Bag_with_seed(seed)
    /\ draws = <<>>
    /\ other_draws = <<>>
    /\ h_board_in = Board_new
    /\ h_cleared = NoCount
    /\ h_args = <<>>
    /\ h_results = <<>>
    /\ InitHistory
    /\ InitNoVersus

\* bag.next() on the first Bag.
BagNext ==
    /\ Len(draws) < MaxDraws
    /\ \E new_bag \in RefillOutcomes(bag) :
          LET r == bag_next(bag, new_bag)
          IN bag' = r.queue /\ draws' = Append(draws, r.kind)
    /\ UNCHANGED <<board, current_piece, hold_piece, hold_used, score, state,
                   mode_state, last_fall, lock_timer, lock_resets, lowest_row,
                   soft_drop_distance, countdown_start, piece_just_locked,
                   last_clear_info>>
    /\ UNCHANGED <<hist_vars, versus_vars, h_seed, other_bag, other_draws, h_board_in, h_cleared,
                   h_args, h_results>>

\* bag.next() on the second Bag.
OtherNext ==
    /\ Len(other_draws) < MaxDraws
    /\ \E new_bag \in RefillOutcomes(other_bag) :
          LET r == bag_next(other_bag, new_bag)
          IN other_bag' = r.queue /\ other_draws' = Append(other_draws, r.kind)
    /\ UNCHANGED <<game_vars, hist_vars, versus_vars, h_seed, draws, h_board_in, h_cleared,
                   h_args, h_results>>

NextBag == BagNext \/ OtherNext

SpecBag == InitBag /\ [][NextBag]_vars

\* The k-th block of 7 draws, as a set of kinds.
Block(ds, k) == {ds[i] : i \in (7 * (k - 1) + 1)..(7 * k)}

\* C1: each complete block of 7 consecutive draws (draws 1-7, 8-14, 15-21)
\* from a freshly constructed Bag holds every kind, so it is a permutation of
\* the 7 kinds, also where the queue was refilled in between.
C1_BlocksArePermutations ==
    \A k \in 1..(Len(draws) \div 7) : Block(draws, k) = TetrominoType

\* Three complete blocks have been drawn; the queue was refilled at the 8th
\* and at the 15th draw.
C1_Witness == Len(draws) >= 21 /\ Len(bag) = 7

\* C2: two Bags built with the same seed have produced the same kinds
\* whenever they have been drawn from the same number of times.
C2_SameSeedSameDraws ==
    (h_seed # NoSeed /\ Len(draws) = Len(other_draws)) => draws = other_draws

(***************************************************************************)
(* The Board alone: clear_lines() called on boards built with set().       *)
(***************************************************************************)
\* The rows 0..PatternRows-1 and the top row are each empty, full, or hold a
\* single filled cell.
PatternRows == 4

PatternRowSet == (0..(PatternRows - 1)) \cup {TOTAL_HEIGHT - 1}

\* The column of the single cell of row r: column 0 for row 1.
MarkCol(r) == (r + BOARD_WIDTH - 1) % BOARD_WIDTH

PatternRow(r, pattern) ==
    CASE pattern = "full" -> [c \in Cols |-> color(all[(c % Len(all)) + 1])]
      [] pattern = "mark" ->
           [c \in Cols |-> IF c = MarkCol(r) THEN color(all[(r % Len(all)) + 1])
                           ELSE "Empty"]
      [] OTHER -> EmptyRow

PatternBoards ==
    {[r \in Rows |-> IF r \in PatternRowSet THEN PatternRow(r, f[r]) ELSE EmptyRow] :
        f \in [PatternRowSet -> {"empty", "full", "mark"}]}

InitBoard ==
    /\ \E b \in PatternBoards : IsGame([Idle EXCEPT !.board = b])
    /\ InitHistory
    /\ InitAux

\* board.clear_lines()
ClearLines ==
    /\ h_cleared = NoCount
    /\ h_board_in' = board
    /\ board' = clear_lines(board).cells
    /\ h_cleared' = clear_lines(board).lines_cleared
    /\ UNCHANGED <<current_piece, hold_piece, hold_used, bag, score, state,
                   mode_state, last_fall, lock_timer, lock_resets, lowest_row,
                   soft_drop_distance, countdown_start, piece_just_locked,
                   last_clear_info>>
    /\ UNCHANGED <<hist_vars, versus_vars,
                   h_seed, draws, other_bag, other_draws, h_args, h_results>>

NextBoard == ClearLines

SpecBoard == InitBoard /\ [][NextBoard]_vars

\* C9: clear_lines() returns the number of full rows of the board it was
\* called on and leaves the other rows stacked from row 0 upward in their
\* order, with empty rows above them.
C9_ClearLinesCompacts ==
    h_cleared # NoCount =>
        /\ h_cleared = Cardinality(FullRows(h_board_in))
        /\ \A r \in Rows :
              board[r] = IF r < Len(KeptRows(h_board_in))
                         THEN h_board_in[KeptRows(h_board_in)[r + 1]]
                         ELSE EmptyRow

\* clear_lines() removed rows 0 and 2 from under the marked rows 1 and 3 and
\* the marked top row.
C9_Witness ==
    /\ h_cleared = 2
    /\ FullRows(h_board_in) = {0, 2}
    /\ h_board_in[1][0] # "Empty"
    /\ h_board_in[3][MarkCol(3)] # "Empty"
    /\ h_board_in[TOTAL_HEIGHT - 1][MarkCol(TOTAL_HEIGHT - 1)] # "Empty"
    /\ board[0][0] # "Empty"

(***************************************************************************)
(* The Score on its own: add_clear and reset_combo called on a Score, with  *)
(* h_args the calls made and h_results the Score at the start and after     *)
(* each call.                                                               *)
(***************************************************************************)
\* Calls made on one Score.
MaxScoreCalls == 2
\* Total lines of the Scores the calls start from: 0..MaxStartLines.
MaxStartLines == 11
\* Combo of the Scores the calls start from: -1..MaxStartCombo.
MaxStartCombo == 1

\* Every ClearType lock_piece can hand to add_clear: a T-spin of either kind
\* clears 0..3 lines, any other lock that scores clears 1..4.
ClearTypes ==
    {ClearType("Regular", n) : n \in 1..4}
      \cup {ClearType("TSpin", n) : n \in 0..3}
      \cup {ClearType("MiniTSpin", n) : n \in 0..3}

\* Scores a game can hold: without a line cleared no combo runs and the
\* level is the starting level of the mode, or 1 after a T-spin that cleared
\* nothing; with lines cleared the level is lines/10 + 1.
StartScores ==
    {s \in [points : {0, 40}, level : 1..(MaxStartLines \div 10 + 5),
            lines : 0..MaxStartLines, combo : (0 - 1)..MaxStartCombo,
            back_to_back : BOOLEAN] :
        /\ s.lines = 0 => s.combo = 0 - 1
        /\ s.lines = 0 => s.level \in {starting_level(mode) : mode \in GameMode}
        /\ s.lines > 0 => s.level = s.lines \div 10 + 1
        /\ s.points = 0 => s.lines = 0}

InitScore ==
    /\ \E s \in StartScores :
          /\ IsGame([Idle EXCEPT !.score = s])
          /\ h_results = <<s>>
    /\ h_args = <<>>
    /\ h_seed = NoSeed
    /\ draws = <<>>
    /\ other_bag = <<>>
    /\ other_draws = <<>>
    /\ h_board_in = Board_new
    /\ h_cleared = NoCount
    /\ InitHistory
    /\ InitNoVersus

\* score.add_clear(clear_type, all_clear)
AddClear(clear_type, all_clear) ==
    /\ Len(h_args) < MaxScoreCalls
    /\ score' = add_clear(score, clear_type, all_clear)
    /\ h_args' = Append(h_args, [clear_type |-> clear_type, all_clear |-> all_clear])
    /\ h_results' = Append(h_results, score')
    /\ UNCHANGED <<board, current_piece, hold_piece, hold_used, bag, state,
                   mode_state, last_fall, lock_timer, lock_resets, lowest_row,
                   soft_drop_distance, countdown_start, piece_just_locked,
                   last_clear_info>>
    /\ UNCHANGED <<hist_vars, versus_vars, h_seed, draws, other_bag, other_draws, h_board_in,
                   h_cleared>>

\* score.reset_combo(); recorded as a call with clear type Regular(0).
ResetCombo ==
    /\ Len(h_args) < MaxScoreCalls
    /\ score' = reset_combo(score)
    /\ h_args' = Append(h_args, [clear_type |-> ClearType("Regular", 0),
                                 all_clear |-> FALSE])
    /\ h_results' = Append(h_results, score')
    /\ UNCHANGED <<board, current_piece, hold_piece, hold_used, bag, state,
                   mode_state, last_fall, lock_timer, lock_resets, lowest_row,
                   soft_drop_distance, countdown_start, piece_just_locked,
                   last_clear_info>>
    /\ UNCHANGED <<hist_vars, versus_vars, h_seed, draws, other_bag, other_draws, h_board_in,
                   h_cleared>>

NextScore ==
    \/ \E clear_type \in ClearTypes, all_clear \in BOOLEAN :
          AddClear(clear_type, all_clear)
    \/ ResetCombo

SpecScore == InitScore /\ [][NextScore]_vars

\* The call add_clear(Regular(4), false).
Tetris == [clear_type |-> ClearType("Regular", 4), all_clear |-> FALSE]

\* C12: of two consecutive add_clear(Regular(4), false) calls on a Score with
\* no combo running and back-to-back not set, the first adds 800 x level and
\* the second adds 800 x level x 3 / 2 (integer division) plus
\* 50 x combo x level with combo = 1, level being the level each call has
\* recomputed; from a fresh Score the total is 2050.
C12_BackToBackTetris ==
    (/\ h_args = <<Tetris, Tetris>>
     /\ h_results[1].combo = 0 - 1
     /\ ~h_results[1].back_to_back)
    => /\ h_results[2].points - h_results[1].points = 800 * h_results[2].level
       /\ h_results[3].points - h_results[2].points
            = (800 * h_results[3].level * 3) \div 2 + 50 * 1 * h_results[3].level
       /\ h_results[3].combo = 1
       /\ h_results[1] = Score_new => h_results[3].points = 2050

\* Two Tetris clears were scored on a fresh Score.
C12_Witness ==
    /\ h_args = <<Tetris, Tetris>>
    /\ h_results[1] = Score_new
    /\ h_results[3].points = 2050

\* The all-clear bonus per level for a clear of the given lines on a Score
\* whose back_to_back was as given before the clear.
AllClearBonus(lines, was_back_to_back) ==
    CASE lines = 1 -> 800
      [] lines = 2 -> 1200
      [] lines = 3 -> 1800
      [] lines = 4 -> IF was_back_to_back THEN 3200 ELSE 2000

\* C24: an add_clear with all_clear set adds, over what the same call adds
\* without it, 800, 1200 or 1800 x level for 1, 2 or 3 lines, and for 4
\* lines 3200 x level if back_to_back was active before the call, else
\* 2000 x level.
C24_AllClearBonus ==
    \A i \in 1..Len(h_args) :
       (h_args[i].all_clear /\ clear_table(h_args[i].clear_type).lines >= 1) =>
           h_results[i + 1].points
              - add_clear(h_results[i], h_args[i].clear_type, FALSE).points
             = AllClearBonus(clear_table(h_args[i].clear_type).lines,
                             h_results[i].back_to_back)
                 * h_results[i + 1].level

(***************************************************************************)
(* T-spin detection on its own: detect_t_spin called on a board on which a  *)
(* T piece has just been locked, h_results its result.                      *)
(***************************************************************************)
\* The T pieces are locked with their centre in rows 0..MaxSpinRow and in
\* columns 0..MaxSpinCol and BOARD_WIDTH - 1.
MaxSpinRow == 2
MaxSpinCol == 1

\* The four cells diagonal to the centre of piece p.
DiagonalCells(p) ==
    {<<p.row + dr, p.col + dc>> : dr \in {0 - 1, 1}, dc \in {0 - 1, 1}}

\* T pieces as a lock finds them: any rotation, any last_kick, all four cells
\* on the board.
LockedTs ==
    {p \in [piece_type : {"T"}, rotation : Rotation,
            row : 0..MaxSpinRow, col : 0..MaxSpinCol \cup {BOARD_WIDTH - 1},
            last_kick : 0..5] :
        are_positions_valid(Board_new, block_positions(p))}

\* The board with piece p locked on the empty board and the given cells
\* filled.
BoardAround(p, filled) ==
    [r \in Rows |-> [c \in Cols |->
        IF <<r, c>> \in {block_positions(p)[i] : i \in 1..4} THEN color(p.piece_type)
        ELSE IF <<r, c>> \in filled THEN color("I")
        ELSE "Empty"]]

InitSpin ==
    /\ \E p \in LockedTs :
       \E filled \in SUBSET DiagonalCells(p) :
          IsGame([Idle EXCEPT !.board = BoardAround(p, filled), !.current_piece = p])
    /\ InitHistory
    /\ InitAux

\* self.detect_t_spin(&piece), as lock_piece calls it after locking the piece.
DetectTSpin ==
    /\ h_results = <<>>
    /\ h_results' = <<detect_t_spin(board, current_piece)>>
    /\ UNCHANGED <<game_vars, hist_vars, versus_vars, h_seed, draws, other_bag, other_draws,
                   h_board_in, h_cleared, h_args>>

NextSpin == DetectTSpin

SpecSpin == InitSpin /\ [][NextSpin]_vars

\* C15: a T piece locked after a rotation that used kick 5, with at least 3
\* of its 4 diagonals filled (a diagonal off the board counts as filled), is
\* a full T-spin whatever its front corners are; with fewer than 3 diagonals
\* filled there is no T-spin of either kind, whatever last_kick is.
C15_KickFiveIsFullTSpin ==
    h_results # <<>> =>
        /\ (current_piece.last_kick = 5 /\ FilledDiagonals(current_piece) >= 3)
              => h_results[1] = "SomeTrue"
        /\ FilledDiagonals(current_piece) < 3 => h_results[1] = "None"

\* A T piece with last_kick 5, exactly 3 diagonals filled and an empty
\* diagonal on the side it faces was classified as a full T-spin.
C15_Witness ==
    /\ h_results = <<"SomeTrue">>
    /\ current_piece.last_kick = 5
    /\ FilledDiagonals(current_piece) = 3
    /\ \E d \in Front(current_piece) : ~Diagonal(current_piece, d[1], d[2])
    /\ \E i \in 1..2 :
          LET corner == t_spin_corners(current_piece)[front_corners(current_piece.rotation)[i] + 1]
          IN get(board, corner[1], corner[2]) = "Empty"

\* C25: in a Sprint game that is Playing with the target number of lines
\* reached, nothing happens to the simulation but the step to Victory: no
\* step moves, turns, replaces or locks the active piece or changes the
\* board.
C25_VictoryBeforeAnythingElse ==
    [][(/\ mode_state.mode = "Sprint"
        /\ state = Playing
        /\ score.lines >= TARGET_LINES)
          => /\ current_piece' = current_piece
             /\ board' = board
             /\ h_locks' = h_locks]_vars

(***************************************************************************)
(* A game with back-to-back active and a T piece above a slot at the left   *)
(* wall.                                                                    *)
(***************************************************************************)
\* From TSlot the T piece is turned North under the Z piece and locked, a
\* T-spin without lines; the next ten pieces are dropped two columns right
\* of where they spawn; the second T piece is moved three columns left and
\* soft-dropped onto the first.
Streak ==
    replay(TSlot,
           <<"RotateCCW", "HardDrop">>
             \o repeat(10, <<"MoveRight", "MoveRight", "HardDrop">>)
             \o times(3, "MoveLeft") \o times(19, "SoftDrop"), 1)

InitStreak ==
    /\ \E g \in {Streak, TSlot} : IsGame(g)
    /\ InitHistory
    /\ InitAux

SpecStreak == InitStreak /\ [][NextMode]_vars

(***************************************************************************)
(* A game with the T piece in a slot two rows deep.                         *)
(***************************************************************************)
\* The Z piece is dropped upright, the T piece is held, and the I, J, S, O
\* and L pieces are dropped so that rows 1 and 2 lack only the cells of a T
\* pointing down at column 3, under an overhang at (3, 2); the T piece is
\* taken back from the hold, turned East and moved over the slot.  In
\* TwoRowSlot it is then soft-dropped into the slot.
SlotCalls ==
    <<"RotateCW", "HardDrop", "Hold">>
      \o <<"RotateCW", "MoveRight", "HardDrop">>
      \o <<"RotateCW", "RotateCW">> \o times(3, "MoveLeft") \o <<"HardDrop">>
      \o times(3, "MoveLeft") \o <<"HardDrop">>
      \o times(4, "MoveRight") \o <<"HardDrop">>
      \o <<"RotateCW", "RotateCW">> \o times(4, "MoveRight") \o <<"HardDrop">>
      \o <<"Hold", "RotateCW", "MoveLeft">>

TwoRowSlot == replay(Started, SlotCalls \o times(19, "SoftDrop"), 1)

\* The same, the T piece soft-dropped to two rows above the slot.
AboveSlot == replay(Started, SlotCalls \o times(17, "SoftDrop"), 1)

InitSlot ==
    /\ IsGame(TwoRowSlot)
    /\ InitHistory
    /\ InitAux

SpecSlot == InitSlot /\ [][NextMode]_vars

\* C21: every lock adds to score.lines exactly the number of rows the lock
\* removes from the board, whatever the clear is classified as.
C21_LinesCountRemovedRows ==
    [][h_locks' = h_locks + 1 =>
          score'.lines = score.lines + Cardinality(FullRows(LockedBoard))]_vars

(***************************************************************************)
(* Games of every mode at their start and before their first line clear.    *)
(***************************************************************************)
\* The first six pieces are dropped in their places and the seventh is over
\* its place, where it completes the first row.
FirstClear(mode) ==
    replay(StartedIn(mode), drops(Placements, 1, 6) \o aim(Placements[7]), 1)

InitLevel ==
    /\ \E mode \in GameMode :
       \E g \in {with_seed(mode, 0, Shuffled(0)), StartedIn(mode), FirstClear(mode)} :
          IsGame(g)
    /\ InitHistory
    /\ InitAux

SpecLevel == InitLevel /\ [][NextMode]_vars

\* C22: in every state score.level is score.lines / 10 + 1, and no step
\* lowers the level.
C22_LevelFromLines ==
    [][/\ score.level = (score.lines \div 10) + 1
       /\ score'.level = (score'.lines \div 10) + 1
       /\ score'.level >= score.level]_vars

(***************************************************************************)
(* The last successful operation on the active piece.  h_args holds its     *)
(* kind: "spawn" (none yet), "rotation" or "translation"; h_results holds   *)
(* what the last lock found.                                                *)
(***************************************************************************)
\* The kind of the last successful operation on the active piece after a call
\* that took the game from g to g2, last being the kind before the call.
LastOp(g, g2, op, last) ==
    IF \/ Locked(g, g2, op) \/ HoldTook(g, g2, op)
       \/ ~IsSome(g.current_piece) \/ ~IsSome(g2.current_piece)
    THEN "spawn"
    ELSE IF g2.current_piece.rotation # g.current_piece.rotation THEN "rotation"
    ELSE IF \/ g2.current_piece.row # g.current_piece.row
            \/ g2.current_piece.col # g.current_piece.col
    THEN "translation"
    ELSE last

\* In each of these games the active T piece was last soft-dropped.
InitTurn ==
    /\ \E g \in {Streak, TwoRowSlot, AboveSlot} : IsGame(g)
    /\ InitHistory
    /\ InitNoVersus
    /\ h_seed = NoSeed
    /\ draws = <<>>
    /\ other_bag = <<>>
    /\ other_draws = <<>>
    /\ h_board_in = Board_new
    /\ h_cleared = NoCount
    /\ h_args = <<"translation">>
    /\ h_results = <<>>

\* One call on the game, as Call, the kind of the last operation on the
\* piece and the findings of a lock being recorded.
TrackedCall(op) ==
    /\ \E new_bag \in RefillOutcomes(bag) :
       \E g2 \in {IF op \in Action THEN process_action(G, op, new_bag)
                  ELSE update(G, new_bag)} :
          /\ SetGame(g2)
          /\ SetHistory(G, g2, op)
          /\ h_args' = <<LastOp(G, g2, op, h_args[1])>>
          /\ h_results' =
                IF Locked(G, g2, op)
                THEN <<[kind |-> current_piece.piece_type,
                        last |-> h_args[1],
                        descent |-> Landing.distance,
                        corners |-> FilledDiagonals(Landing.piece),
                        is_tspin |-> g2.last_clear_info.is_tspin]>>
                ELSE h_results
    /\ UNCHANGED <<versus_vars, h_seed, draws, other_bag, other_draws, h_board_in, h_cleared>>

NextTurn ==
    \/ \E action \in Action :
          /\ h_inputs < MaxInputs
          /\ TrackedCall(action)
          /\ h_inputs' = h_inputs + 1
          /\ h_ticks' = h_ticks
    \/ TrackedCall("update") /\ UNCHANGED <<h_inputs, h_ticks>>
    \/ h_ticks < MaxEndTicks /\ Tick

SpecTurn == InitTurn /\ [][NextTurn]_vars

\* C23: a lock classifies the piece as a T-spin or Mini T-spin only if the
\* last successful operation on the piece was a rotation and the lock did not
\* descend; after a translation - a move, a soft drop, a gravity step or a
\* hard drop of at least one row - it never does.
C23_TranslationEndsTSpin ==
    h_results # <<>> =>
        (h_results[1].is_tspin =>
            h_results[1].last = "rotation" /\ h_results[1].descent = 0)

\* A T piece was rotated and then hard-dropped two rows to a place where 3
\* of its diagonals are filled, and the lock did not classify it as a
\* T-spin.
C23_Witness ==
    /\ h_results # <<>>
    /\ h_results[1].kind = "T"
    /\ h_results[1].last = "rotation"
    /\ h_results[1].descent = 2
    /\ h_results[1].corners >= 3
    /\ ~h_results[1].is_tspin
    /\ last_clear_info.some

(***************************************************************************)
(* The countdown: games from their construction on, the time since then     *)
(* kept to the millisecond (not saturated) while the countdown runs.        *)
(***************************************************************************)
\* Seconds the countdown clock is followed.
MaxWaitSecs == 258

\* Games as Game::with_seed leaves them.
Constructed ==
    {with_seed(mode, seed, Shuffled(0)) : mode \in GameMode, seed \in Seeds}

InitCountdown ==
    /\ \E g \in Constructed : IsGame(g)
    /\ InitHistory
    /\ InitAux

\* One second passes during the countdown.
SecondPasses ==
    /\ state.tag = "Countdown"
    /\ countdown_start # NoInstant
    /\ countdown_start + 1000 <= MaxWaitSecs * 1000
    /\ countdown_start' = countdown_start + 1000
    /\ last_fall' = later(last_fall, 1000, FALL_SAT)
    /\ UNCHANGED <<board, current_piece, hold_piece, hold_used, bag, score, state,
                   mode_state, lock_timer, lock_resets, lowest_row,
                   soft_drop_distance, piece_just_locked, last_clear_info>>
    /\ UNCHANGED <<hist_vars, aux_vars, versus_vars>>

NextCountdown ==
    \/ \E action \in Action : h_inputs < MaxEndInputs /\ ProcessAction(action)
    \/ Update
    \/ SecondPasses
    \/ state.tag # "Countdown" /\ h_ticks < MaxEndTicks /\ Tick

SpecCountdown == InitCountdown /\ [][NextCountdown]_vars

\* The board, active piece, held kind, bag and score are those of a
\* constructed game.
AsConstructed ==
    \E g \in Constructed :
       /\ board = g.board
       /\ current_piece = g.current_piece
       /\ hold_piece = g.hold_piece
       /\ bag = g.bag
       /\ score = g.score

\* C26: while the state is Countdown, the board, active piece, held kind,
\* bag and score are as at construction, and no step - an update or an
\* action - changes anything but the state and the countdown, mode and fall
\* clocks; so they are as at construction when Playing begins.
C26_CountdownTouchesNothing ==
    [][state.tag = "Countdown" =>
          /\ AsConstructed
          /\ UNCHANGED <<board, current_piece, hold_piece, hold_used, bag, score,
                         lock_timer, lock_resets, lowest_row, soft_drop_distance,
                         piece_just_locked, last_clear_info>>]_vars

\* Playing has just begun, as constructed, and one action has been processed:
\* during the countdown, since in Playing every action changes the piece, the
\* hold or the state.
C26_Witness ==
    /\ state = Playing
    /\ countdown_start = NoInstant
    /\ AsConstructed
    /\ h_inputs = 1
    /\ h_ticks = 0
    /\ lock_timer = NoInstant

\* C27: a game starts in Countdown(3); an update made e whole seconds after
\* construction while in Countdown leaves Countdown(3 - e) if e < 3 and
\* Playing if e >= 3, so the count never increases and is 3, 2 or 1.
C27_CountdownFollowsSeconds ==
    [][(/\ state.tag = "Countdown"
        /\ h_inputs' = h_inputs
        /\ countdown_start' \in {countdown_start, NoInstant})
          => /\ state.count \in 1..3
             /\ state' = IF countdown_start \div 1000 < 3
                         THEN Countdown(3 - (countdown_start \div 1000))
                         ELSE Playing
             /\ state'.tag = "Countdown" => state'.count <= state.count]_vars

(***************************************************************************)
(* Hold.                                                                   *)
(***************************************************************************)
\* A Hold took effect: it took the active piece away and the game goes on.
HoldTookEffect == h_holds' > h_holds /\ state' = Playing

\* C29: a Hold that takes effect with a kind held makes that kind the active
\* piece at its spawn position, North, last_kick 0, holds the outgoing kind and
\* leaves the bag alone; with nothing held it makes the front of the bag the
\* active piece, removes exactly that one from the bag and holds the outgoing
\* kind; either way the board and the score are unchanged and soft-drop
\* distance, lock timer and reset counter are reset.
C29_HoldSwapsOrDraws ==
    [][HoldTookEffect =>
          /\ hold_piece' = current_piece.piece_type
          /\ IF hold_piece # "None"
             THEN /\ current_piece' = Piece_new(hold_piece)
                  /\ bag' = bag
             ELSE /\ current_piece' = Piece_new(Head(bag))
                  /\ \/ bag' = Tail(bag)
                     \/ \E new_bag \in ShuffleOutcomes : bag' = Tail(bag \o new_bag)
                  /\ Len(bag') >= 7
          /\ current_piece'.rotation = "North"
          /\ current_piece'.last_kick = 0
          /\ board' = board
          /\ score' = score
          /\ soft_drop_distance' = 0
          /\ lock_timer' = NoInstant
          /\ lock_resets' = 0]_vars

\* The T piece, soft-dropped 19 rows to the slot, is swapped for the held I
\* piece by the second action made on it.
C29_Witness ==
    /\ h_holds = 1
    /\ h_inputs = 2
    /\ h_locks = 0
    /\ board = TwoRowSlot.board
    /\ bag = TwoRowSlot.bag
    /\ hold_piece = "T"
    /\ current_piece = Piece_new("I")
    /\ soft_drop_distance = 0
    /\ lock_timer = NoInstant
    /\ lock_resets = 0

(***************************************************************************)
(* Rotation on its own: Piece::rotate called on a piece among obstacles in  *)
(* the lower left corner of the board, h_args the piece and the direction,  *)
(* h_results the value returned.                                            *)
(***************************************************************************)
\* The pieces have their pivot in rows 0..MaxPivot and columns 0..MaxPivot.
MaxPivot == 3

\* Cells that may be filled when the piece is rotated.
Obstacles == {<<0, 2>>, <<1, 0>>, <<2, 3>>, <<3, 1>>, <<4, 2>>, <<1, 4>>}

\* The board with the given cells filled.
BoardWith(filled) ==
    [r \in Rows |-> [c \in Cols |->
        IF <<r, c>> \in filled THEN color("I") ELSE "Empty"]]

RotationDirection == {"Clockwise", "CounterClockwise"}

InitRotate ==
    /\ \E filled \in SUBSET Obstacles :
       \E p \in [piece_type : TetrominoType, rotation : Rotation,
                 row : 0..MaxPivot, col : 0..MaxPivot, last_kick : {0, 4}] :
          /\ are_positions_valid(BoardWith(filled), block_positions(p))
          /\ IsGame([Idle EXCEPT !.board = BoardWith(filled), !.current_piece = p])
    /\ InitHistory
    /\ InitAux

\* piece.rotate(direction, &board)
RotatePiece(direction) ==
    /\ h_args = <<>>
    /\ \E m \in {piece_rotate(current_piece, direction, board)} :
          /\ current_piece' = m.piece
          /\ h_results' = <<m.ok>>
    /\ h_args' = <<[piece |-> current_piece, direction |-> direction]>>
    /\ UNCHANGED <<board, hold_piece, hold_used, bag, score, state,
                   mode_state, last_fall, lock_timer, lock_resets, lowest_row,
                   soft_drop_distance, countdown_start, piece_just_locked,
                   last_clear_info>>
    /\ UNCHANGED <<hist_vars, versus_vars, h_seed, draws, other_bag, other_draws, h_board_in,
                   h_cleared>>

NextRotate == \E direction \in RotationDirection : RotatePiece(direction)

SpecRotate == InitRotate /\ [][NextRotate]_vars

\* The rotation a quarter turn in the given direction from rotation r.
Turned(r, direction) ==
    LET order == <<"North", "East", "South", "West">>
        i == CHOOSE k \in 1..4 : order[k] = r
    IN IF direction = "Clockwise" THEN order[(i % 4) + 1]
       ELSE order[((i + 2) % 4) + 1]

\* A cell a piece may occupy: inside the walls, on or above the floor, and
\* empty if it is on the board.
Free(r, c) ==
    /\ c \in Cols
    /\ r >= 0
    /\ r \in Rows => board[r][c] = "Empty"

\* The 1-based indices of the offsets at which piece p, turned in the given
\* direction, fits.
FittingKicks(p, direction) ==
    {i \in 1..5 :
        LET off == get_wall_kicks(p.piece_type, p.rotation, direction)[i]
            cells == shape(p.piece_type, Turned(p.rotation, direction))
        IN \A k \in 1..4 :
              Free(p.row + off[1] + cells[k][1], p.col + off[2] + cells[k][2])}

\* C16: every wall-kick table has 5 offsets, the first being (0,0); rotate
\* moves the piece to the first offset in table order at which the turned
\* piece fits and sets last_kick to that offset's 1-based index, so that a
\* rotation that fits without a kick ends with last_kick = 1 and the pivot
\* unchanged; if no offset fits, the piece is unchanged and rotate returns
\* false.
C16_FirstFittingKick ==
    /\ \A kind \in TetrominoType, from \in Rotation, direction \in RotationDirection :
          /\ Len(get_wall_kicks(kind, from, direction)) = 5
          /\ get_wall_kicks(kind, from, direction)[1] = <<0, 0>>
    /\ h_args # <<>> =>
          \A p \in {h_args[1].piece} :
          \A fits \in {FittingKicks(p, h_args[1].direction)} :
             IF fits = {}
             THEN h_results = <<FALSE>> /\ current_piece = p
             ELSE \A i \in {CHOOSE k \in fits : \A j \in fits : k <= j} :
                  \A off \in {get_wall_kicks(p.piece_type, p.rotation,
                                            h_args[1].direction)[i]} :
                     /\ h_results = <<TRUE>>
                     /\ current_piece
                          = [piece_type |-> p.piece_type,
                             rotation |-> Turned(p.rotation, h_args[1].direction),
                             row |-> p.row + off[1],
                             col |-> p.col + off[2],
                             last_kick |-> i]
                     /\ i = 1 => current_piece.row = p.row /\ current_piece.col = p.col

\* A rotation succeeded with the fifth offset, the first four not fitting.
C16_Witness ==
    /\ h_results = <<TRUE>>
    /\ current_piece.last_kick = 5
    /\ h_args[1].piece.last_kick # 5
    /\ current_piece.rotation # h_args[1].piece.rotation

(***************************************************************************)
(* Dropping on its own: Piece::ghost_row and Piece::hard_drop called on a  *)
(* piece above obstacles.  h_args holds the piece before the hard drop,    *)
(* h_results the value ghost_row returned last and the value hard_drop     *)
(* returned.                                                               *)
(***************************************************************************)
\* The pieces have their pivot in rows 0..MaxDropRow.
MaxDropRow == 4

InitDrop ==
    /\ \E filled \in SUBSET Obstacles :
       \E p \in [piece_type : TetrominoType, rotation : Rotation,
                 row : 0..MaxDropRow, col : 0..MaxPivot, last_kick : {0, 4}] :
          /\ are_positions_valid(BoardWith(filled), block_positions(p))
          /\ IsGame([Idle EXCEPT !.board = BoardWith(filled), !.current_piece = p])
    /\ InitHistory
    /\ InitAux

\* piece.ghost_row(&board)
GhostRow ==
    /\ h_results = <<>>
    /\ h_results' = <<[ghost |-> ghost_row(current_piece, board)]>>
    /\ UNCHANGED game_vars
    /\ UNCHANGED <<hist_vars, versus_vars, h_seed, draws, other_bag, other_draws, h_board_in,
                   h_cleared, h_args>>

\* piece.hard_drop(&board)
HardDropPiece ==
    /\ h_args = <<>>
    /\ \E d \in {piece_hard_drop(current_piece, board)} :
          /\ current_piece' = d.piece
          /\ h_results' = <<[ghost |-> ghost_row(current_piece, board),
                             distance |-> d.distance]>>
    /\ h_args' = <<current_piece>>
    /\ UNCHANGED <<board, hold_piece, hold_used, bag, score, state,
                   mode_state, last_fall, lock_timer, lock_resets, lowest_row,
                   soft_drop_distance, countdown_start, piece_just_locked,
                   last_clear_info>>
    /\ UNCHANGED <<hist_vars, versus_vars, h_seed, draws, other_bag, other_draws, h_board_in,
                   h_cleared>>

NextDrop == GhostRow \/ HardDropPiece

SpecDrop == InitDrop /\ [][NextDrop]_vars

\* C28: for a piece in a valid position, ghost_row changes neither the piece
\* nor the board, and hard_drop leaves the piece in the row ghost_row returned
\* before it, returns the starting row minus that row, leaves the column and
\* the rotation as they were, and leaves the piece unable to move down.
C28_GhostRowIsHardDropRow ==
    /\ [][h_args' = h_args => UNCHANGED <<current_piece, board>>]_vars
    /\ [][h_args' # h_args =>
             /\ current_piece'.row = h_results'[1].ghost
             /\ h_results'[1].distance = current_piece.row - h_results'[1].ghost
             /\ current_piece'.col = current_piece.col
             /\ current_piece'.rotation = current_piece.rotation
             /\ current_piece'.piece_type = current_piece.piece_type
             /\ board' = board
             /\ ~piece_move_down(current_piece', board').ok
             /\ ghost_row(current_piece', board') = current_piece'.row]_vars

\* An L piece dropped three rows onto an obstacle, its ghost row read first.
C28_Witness ==
    /\ h_args # <<>>
    /\ h_args[1].piece_type = "L"
    /\ h_args[1].row = 4
    /\ h_results[1].distance = 3
    /\ current_piece.row = 1
    /\ board[0][current_piece.col] # "Empty"

(***************************************************************************)
(* The preview of a Bag: one call of preview(count) at any point of a run   *)
(* of next() calls.  h_args records the count, the length of the queue and  *)
(* the number of kinds drawn before the call, h_results the slice returned. *)
(***************************************************************************)
\* The largest count preview is called with.
MaxCount == 9

InitPreview ==
    /\ \E new_bag1 \in ShuffleOutcomes, new_bag2 \in ShuffleOutcomes :
          IsGame([Idle EXCEPT !.bag = Bag_new(new_bag1, new_bag2)])
    /\ h_seed = NoSeed
    /\ other_bag = Bag_with_seed(0)
    /\ draws = <<>>
    /\ other_draws = <<>>
    /\ h_board_in = Board_new
    /\ h_cleared = NoCount
    /\ h_args = <<>>
    /\ h_results = <<>>
    /\ InitHistory
    /\ InitNoVersus

\* bag.preview(count): takes &self, so the queue stays as it is.
BagPreview(count) ==
    /\ h_args = <<>>
    /\ h_args' = <<[count |-> count, len |-> Len(bag), drawn |-> Len(draws)]>>
    /\ h_results' = <<preview(bag, count)>>
    /\ UNCHANGED <<game_vars, hist_vars, versus_vars, h_seed, draws, other_bag, other_draws,
                   h_board_in, h_cleared>>

NextPreview ==
    \/ BagNext
    \/ \E count \in 0..MaxCount : BagPreview(count)

SpecPreview == InitPreview /\ [][NextPreview]_vars

\* The kinds a preview returned are the kinds drawn after it, as far as they
\* have been drawn.
PreviewIsDrawn ==
    \A i \in 1..Len(h_results[1]) :
       h_args[1].drawn + i <= Len(draws) =>
          draws[h_args[1].drawn + i] = h_results[1][i]

\* C17: between calls the queue holds 7 to 14 kinds; preview(n) returns the
\* first min(n, queue length) kinds of the queue, hence exactly n kinds for
\* every n up to 7 and exactly 5 for preview(5), and they are the kinds the
\* following next() calls return, in order.
C17_PreviewIsClippedPrefix ==
    /\ Len(bag) \in 7..14
    /\ h_args # <<>> =>
          /\ Len(h_results[1])
                = IF h_args[1].count < h_args[1].len THEN h_args[1].count
                  ELSE h_args[1].len
          /\ h_args[1].count <= 7 => Len(h_results[1]) = h_args[1].count
          /\ PreviewIsDrawn

\* preview(5) was called on a queue of 7 kinds, and the 5 kinds it returned
\* have since been drawn, the first draw refilling the queue.
C17_Witness ==
    /\ h_args # <<>>
    /\ h_args[1].count = 5
    /\ h_args[1].len = 7
    /\ Len(draws) >= h_args[1].drawn + 5
    /\ h_results[1] = SubSeq(draws, h_args[1].drawn + 1, h_args[1].drawn + 5)

\* C17 as stated: preview(n) returns exactly the next n kinds, for every n.
C17_PreviewReturnsNextN ==
    /\ Len(bag) \in 7..14
    /\ h_args # <<>> =>
          /\ Len(h_results[1]) = h_args[1].count
          /\ PreviewIsDrawn

(***************************************************************************)
(* multiplayer.rs: calculate_garbage on its own, h_args the arguments of    *)
(* one call and h_results the value returned.                               *)
(***************************************************************************)
\* The largest lines and combo arguments explored.
MaxGarbageLines == 5
MaxGarbageCombo == 12

\* calculate_garbage with the combo bonus not limited to 10.
calculate_garbage_full_combo(lines, is_tspin, combo, back_to_back) ==
    LET base == IF is_tspin
                THEN CASE lines = 1 -> 2 [] lines = 2 -> 4 [] lines = 3 -> 6
                       [] OTHER -> 0
                ELSE CASE lines = 1 -> 0 [] lines = 2 -> 1 [] lines = 3 -> 2
                       [] lines = 4 -> 4 [] OTHER -> 0
        b2b_bonus == IF back_to_back /\ (lines = 4 \/ is_tspin) THEN 1 ELSE 0
        combo_bonus == IF combo > 0 THEN combo ELSE 0
        sum == (base + b2b_bonus + (combo_bonus % 256)) % 256
    IN IF sum < 12 THEN sum ELSE 12

\* calculate_garbage(): the sum is computed in u8.
calculate_garbage(lines, is_tspin, combo, back_to_back) ==
    LET base == IF is_tspin
                THEN CASE lines = 1 -> 2 [] lines = 2 -> 4 [] lines = 3 -> 6
                       [] OTHER -> 0
                ELSE CASE lines = 1 -> 0 [] lines = 2 -> 1 [] lines = 3 -> 2
                       [] lines = 4 -> 4 [] OTHER -> 0
        b2b_bonus == IF back_to_back /\ (lines = 4 \/ is_tspin) THEN 1 ELSE 0
        combo_bonus == IF combo > 0 THEN (IF combo < 10 THEN combo ELSE 10) ELSE 0
        sum == (base + b2b_bonus + (combo_bonus % 256)) % 256
    IN IF sum < 12 THEN sum ELSE 12

InitGarbage ==
    /\ IsGame(Idle)
    /\ InitHistory
    /\ InitNoVersus
    /\ h_seed = NoSeed
    /\ draws = <<>>
    /\ other_bag = <<>>
    /\ other_draws = <<>>
    /\ h_board_in = Board_new
    /\ h_cleared = NoCount
    /\ \E lines \in 0..MaxGarbageLines, is_tspin \in BOOLEAN,
          combo \in 0..MaxGarbageCombo, back_to_back \in BOOLEAN :
          h_args = <<[lines |-> lines, is_tspin |-> is_tspin, combo |-> combo,
                      back_to_back |-> back_to_back]>>
    /\ h_results = <<>>

\* multiplayer::calculate_garbage(lines, is_tspin, combo, back_to_back)
CalculateGarbage ==
    /\ h_results = <<>>
    /\ h_results' = <<calculate_garbage(h_args[1].lines, h_args[1].is_tspin,
                                        h_args[1].combo, h_args[1].back_to_back)>>
    /\ UNCHANGED <<game_vars, hist_vars, versus_vars, h_seed, draws, other_bag, other_draws,
                   h_board_in, h_cleared, h_args>>

NextGarbage == CalculateGarbage

SpecGarbage == InitGarbage /\ [][NextGarbage]_vars

\* The garbage of a clear before bonuses: 0/1/2/4 for 1 to 4 lines, 2/4/6
\* for a T-spin of 1 to 3 lines.
GarbageBase(a) ==
    IF a.is_tspin THEN <<2, 4, 6>>[a.lines] ELSE <<0, 1, 2, 4>>[a.lines]

\* C19: calculate_garbage never returns more than 12, and for 1 to 4 lines
\* without T-spin and 1 to 3 lines with T-spin it returns
\* min(12, base + b2b + min(combo, 10)), b2b being 1 when back_to_back is set
\* and the clear has 4 lines or is a T-spin, else 0.
C19_GarbageFormula ==
    h_results # <<>> =>
        \A a \in {h_args[1]} :
           /\ h_results[1] <= 12
           /\ a.lines \in 1..(IF a.is_tspin THEN 3 ELSE 4) =>
                 \A total \in {GarbageBase(a)
                               + (IF a.back_to_back /\ (a.lines = 4 \/ a.is_tspin)
                                  THEN 1 ELSE 0)
                               + (IF a.combo < 10 THEN a.combo ELSE 10)} :
                    h_results[1] = IF total < 12 THEN total ELSE 12

\* A back-to-back T-spin triple in a combo of 11: 6 + 1 + 10 is cut to 12.
C19_Witness ==
    /\ h_results = <<12>>
    /\ h_args[1] = [lines |-> 3, is_tspin |-> TRUE, combo |-> 11, back_to_back |-> TRUE]

(***************************************************************************)
(* Moves and rotations that do not fit.                                     *)
(***************************************************************************)
\* The active piece does not fit one column to the left (dc = -1) or right
\* (dc = 1), or one row down (dr = -1).
Blocked(dr, dc) ==
    \E i \in 1..4 :
       ~Free(block_positions(current_piece)[i][1] + dr,
             block_positions(current_piece)[i][2] + dc)

\* The action asks for a move or a rotation of the active piece that no
\* target position admits.
Invalid(action) ==
    CASE action = "MoveLeft" -> Blocked(0, 0 - 1)
      [] action = "MoveRight" -> Blocked(0, 1)
      [] action = "SoftDrop" -> Blocked(0 - 1, 0)
      [] action = "RotateCW" -> FittingKicks(current_piece, "Clockwise") = {}
      [] action = "RotateCCW" -> FittingKicks(current_piece, "CounterClockwise") = {}
      [] OTHER -> FALSE

\* C20: in Playing, a MoveLeft, MoveRight, SoftDrop, RotateCW or RotateCCW
\* whose target cells are not all valid (for a rotation: at none of the 5
\* kick offsets) leaves every field of the game as it was.
C20_InvalidMoveIsNoOp ==
    (state = Playing /\ IsSome(current_piece)) =>
        \A action \in {"MoveLeft", "MoveRight", "SoftDrop", "RotateCW", "RotateCCW"} :
           Invalid(action) => process_action(G, action, Shuffled(0)) = G

\* From TSlot, with the lock timer started by an update, the T piece was
\* turned under the Z piece (one lock reset counted), where it can move
\* neither left, right nor down and one rotation fits at no offset; a second
\* input has been processed and left the piece there with no further lock
\* reset counted.
C20_Witness ==
    /\ state = Playing
    /\ h_inputs = 2
    /\ current_piece = [piece_type |-> "T", rotation |-> "North", row |-> 0,
                        col |-> 1, last_kick |-> 3]
    /\ board = TSlot.board
    /\ lock_timer # NoInstant
    /\ lock_resets = 1
    /\ Invalid("MoveLeft")
    /\ Invalid("MoveRight")
    /\ Invalid("SoftDrop")
    /\ Invalid("RotateCW") \/ Invalid("RotateCCW")

(***************************************************************************)
(* The cells of the active piece.                                          *)
(***************************************************************************)
\* C33: whenever there is an active piece, each of its 4 cells is in columns
\* 0..9, in a row >= 0, and on no filled cell of the board.
C33_ActivePieceFits ==
    IsSome(current_piece) =>
        \A i \in 1..4 :
            LET cell == block_positions(current_piece)[i]
            IN /\ cell[2] >= 0
               /\ cell[2] <= 9
               /\ cell[1] >= 0
               /\ (cell[1] \in Rows => board[cell[1]][cell[2]] = "Empty")

\* The T piece of TSlot after one rotation that was kicked, against the wall
\* and on the floor.
C33_Witness ==
    /\ state = Playing
    /\ h_inputs = 1
    /\ board = TSlot.board
    /\ current_piece.piece_type = "T"
    /\ current_piece.last_kick > 0
    /\ Blocked(0, 0 - 1)
    /\ Blocked(0 - 1, 0)

(***************************************************************************)
(* The hidden rows of the board.                                           *)
(***************************************************************************)
\* The rows above the visible height.
BufferRows == BOARD_HEIGHT..(TOTAL_HEIGHT - 1)

\* C34: unless the state is GameOver, every cell of the hidden rows 20..23
\* is Empty.
C34_BufferEmptyInPlay ==
    state # GameOver =>
        \A r \in BufferRows : \A c \in Cols : board[r][c] = "Empty"

\* A piece has been locked on a stack that reaches the row under the top
\* visible row, and the game goes on.
C34_Witness ==
    /\ state = Playing
    /\ h_locks = 1
    /\ \E c \in Cols : board[BOARD_HEIGHT - 2][c] # "Empty"

(***************************************************************************)
(* The filled cells of the board across a lock.                            *)
(***************************************************************************)
\* The number of Filled cells of board b.
FilledCount(b) == Cardinality({rc \in Rows \X Cols : b[rc[1]][rc[2]] # "Empty"})

\* The number of lines the lock of this step cleared, as clear_lines returned
\* it to lock_piece.
LinesClearedByLock ==
    IF last_clear_info'.some THEN last_clear_info'.lines ELSE 0

\* C35: at every lock the 4 cells of the piece are inside the 24 x 10 grid
\* and Empty, and the number of Filled cells changes by +4 - 10 x (rows the
\* lock cleared).
C35_LockAddsFourCells ==
    [][h_locks' = h_locks + 1 =>
          \A cells \in {LandingCells} :
             /\ \A i \in 1..4 :
                   /\ cells[i][1] \in Rows
                   /\ cells[i][2] \in Cols
                   /\ board[cells[i][1]][cells[i][2]] = "Empty"
             /\ \A i, j \in 1..4 : i # j => cells[i] # cells[j]
             /\ LinesClearedByLock =
                   Cardinality(FullRows(board_lock_piece(board, cells,
                                                         current_piece.piece_type)))
             /\ FilledCount(board') =
                   FilledCount(board) + 4 - 10 * LinesClearedByLock]_vars

\* A lock has cleared a line and the game goes on.
C35_Witness ==
    /\ h_locks = 1
    /\ last_clear_info.some
    /\ last_clear_info.lines >= 1
    /\ state = Playing

(***************************************************************************)
(* Full rows.                                                              *)
(***************************************************************************)
\* C36: after every call of process_action and of update the board has no
\* completely filled row.
C36_NoFullRowAtRest ==
    \A r \in Rows : \E c \in Cols : board[r][c] = "Empty"

\* A lock has cleared a line and left other cells on the board.
C36_Witness ==
    /\ h_locks >= 1
    /\ last_clear_info.some
    /\ last_clear_info.lines >= 1
    /\ ~board_is_empty(board)
    /\ FullRows(board) = {}

(***************************************************************************)
(* Where a piece is locked.                                                *)
(***************************************************************************)
\* C37: at every lock, by HardDrop or by update(), the cells written to the
\* board are those of the piece at rest: at least one of them has the floor
\* or a filled cell directly below it.
C37_LockedAtRest ==
    [][h_locks' = h_locks + 1 =>
          \A cells \in {LandingCells} :
             /\ board' = clear_lines(board_lock_piece(board, cells,
                                                      current_piece.piece_type)).cells
             /\ \E i \in 1..4 : ~Free(cells[i][1] - 1, cells[i][2])
             /\ (h_inputs' = h_inputs) => cells = block_positions(current_piece)]_vars

\* A HardDrop has locked the first piece of a game on the floor, 20 rows
\* under the row it spawned in.
C37_Witness ==
    /\ h_locks = 1
    /\ h_inputs = 1
    /\ state = Playing
    /\ FilledCount(board) = 4
    /\ \E c \in Cols : board[0][c] # "Empty"
    /\ score.points = 40

(***************************************************************************)
(* multiplayer.rs, main.rs: a versus match between a host and a guest.     *)
(* Each player runs a main loop (key presses, then one frame: the network  *)
(* events polled from the session's channel, then the transition of the    *)
(* session's state) and a network task (the handshake, then the message    *)
(* loop).  The stream between the two tasks delivers every message, in the *)
(* order written.                                                          *)
(***************************************************************************)
Roles == {"Host", "Guest"}

Opponent(role) == IF role = "Host" THEN "Guest" ELSE "Host"

\* ConnectionState; the fields a variant does not have keep their default.
ConnectionState(tag) ==
    [tag |-> tag, we_ready |-> FALSE, they_ready |-> FALSE, value |-> 0,
     we_won |-> FALSE]

Lobby(we_ready, they_ready) ==
    [ConnectionState("Lobby") EXCEPT !.we_ready = we_ready,
                                     !.they_ready = they_ready]

SessionCountdown(value) == [ConnectionState("Countdown") EXCEPT !.value = value]

SessionGameOver(we_won) == [ConnectionState("GameOver") EXCEPT !.we_won = we_won]

\* GameMessage and NetEvent: the variant and the one value it carries that a
\* session reads (the seed, the countdown value).
GameMessage(type, value) == [type |-> type, value |-> value]

NetEvent(type, value) == [type |-> type, value |-> value]

\* GameMode::Versus is the mode main.rs builds both games with; mode.rs does
\* not define it.  The games of a match are built in the mode without a goal.
VersusMode == "Marathon"

\* MultiplayerSession::new() followed by set_channels() and the assignments
\* of main.rs: cmd_tx and event_rx are the contents of the two channels the
\* session shares with its network task.  Every command in cmd_tx is a
\* NetCommand::Send of the message.  The opponent's snapshot and the pending
\* garbage are not kept: no transition of the session reads them.
MultiplayerSession(role, tag, seed) ==
    [role |-> role, state |-> ConnectionState(tag), game_seed |-> seed,
     countdown_start |-> NoInstant, cmd_tx |-> <<>>, event_rx |-> <<>>]

\* MultiplayerSession::send()
send(s, msg) == [s EXCEPT !.cmd_tx = Append(@, msg)]

\* MultiplayerSession::start_countdown()
start_countdown(s) ==
    send([s EXCEPT !.countdown_start = 0, !.state = SessionCountdown(3)],
         GameMessage("Countdown", 3))

\* MultiplayerSession::set_ready()
set_ready(s) ==
    IF s.state.tag = "Lobby" /\ ~s.state.we_ready
    THEN LET readied == send([s EXCEPT !.state = Lobby(TRUE, s.state.they_ready)],
                             GameMessage("Ready", 0))
         IN IF s.state.they_ready /\ s.role = "Host"
            THEN start_countdown(readied) ELSE readied
    ELSE s

\* MultiplayerSession::set_opponent_ready()
set_opponent_ready(s) ==
    IF s.state.tag = "Lobby"
    THEN LET marked == [s EXCEPT !.state = Lobby(s.state.we_ready, TRUE)]
         IN IF s.state.we_ready /\ s.role = "Host"
            THEN start_countdown(marked) ELSE marked
    ELSE s

\* MultiplayerSession::update_countdown()
session_update_countdown(s) ==
    IF s.role # "Host" \/ s.state.tag # "Countdown" \/ s.countdown_start = NoInstant
    THEN s
    ELSE LET new_value == new_count_of(s.countdown_start \div 1000)
         IN IF new_value = s.state.value THEN s
            ELSE send(IF new_value = 0
                      THEN [s EXCEPT !.state = ConnectionState("Playing"),
                                     !.countdown_start = NoInstant]
                      ELSE [s EXCEPT !.state = SessionCountdown(new_value)],
                      GameMessage("Countdown", new_value))

\* MultiplayerSession::receive_countdown()
receive_countdown(s, value) ==
    [s EXCEPT !.state = IF value = 0 THEN ConnectionState("Playing")
                        ELSE SessionCountdown(value)]

\* The handling of one network event with SeedReceived storing the seed in
\* the session only, the Game left as it was built.
handle_event_keeping_game(c, event) ==
    CASE event.type = "Connected" ->
            [c EXCEPT !.session.state = ConnectionState("Connected")]
      [] event.type = "SeedReceived" ->
            [c EXCEPT !.session.game_seed = event.value]
      [] event.type = "OpponentReady" ->
            [c EXCEPT !.session = set_opponent_ready(c.session)]
      [] event.type = "Countdown" ->
            [c EXCEPT !.session = receive_countdown(c.session, event.value)]
      [] event.type \in {"OpponentGameOver", "Disconnected"} ->
            [c EXCEPT !.session.state = SessionGameOver(TRUE)]
      [] event.type = "Error" ->
            [c EXCEPT !.session.state = ConnectionState("Disconnected")]
      [] OTHER -> c

\* run_app, AppState::Versus: one network event.  c is the session, the Game
\* next to it and the seed that Game was constructed with.
handle_event(c, event) ==
    CASE event.type = "Connected" ->
            [c EXCEPT !.session.state = ConnectionState("Connected")]
      [] event.type = "SeedReceived" ->
            [c EXCEPT !.session.game_seed = event.value,
                      !.game = with_seed(VersusMode, event.value, Shuffled(0)),
                      !.seed = event.value]
      [] event.type = "OpponentReady" ->
            [c EXCEPT !.session = set_opponent_ready(c.session)]
      [] event.type = "Countdown" ->
            [c EXCEPT !.session = receive_countdown(c.session, event.value)]
      [] event.type \in {"OpponentGameOver", "Disconnected"} ->
            [c EXCEPT !.session.state = SessionGameOver(TRUE)]
      [] event.type = "Error" ->
            [c EXCEPT !.session.state = ConnectionState("Disconnected")]
      [] OTHER -> c

\* The events of one poll_events(), in the order they were sent.
RECURSIVE handle_events(_, _)
handle_events(c, events) ==
    IF events = <<>> THEN c
    ELSE Let(handle_event(c, Head(events)),
             LAMBDA handled : handle_events(handled, Tail(events)))

\* run_app, AppState::Versus, ConnectionState::Playing: no key is held;
\* update(), then the board and the garbage of a lock and the end of the
\* game are sent.
play_frame(c, new_bag) ==
    Let(update(c.game, new_bag), LAMBDA g :
        LET info == g.last_clear_info
            garbage == IF info.some
                       THEN calculate_garbage(info.lines, info.is_tspin,
                                              IF info.combo > 0 THEN info.combo ELSE 0,
                                              info.back_to_back)
                       ELSE 0
            s1 == IF g.piece_just_locked
                  THEN send(c.session, GameMessage("BoardState", 0)) ELSE c.session
            s2 == IF g.piece_just_locked /\ garbage > 0
                  THEN send(s1, GameMessage("Garbage", garbage)) ELSE s1
            s3 == IF g.state = GameOver
                  THEN [send(s2, GameMessage("GameOver", 0))
                           EXCEPT !.state = SessionGameOver(FALSE)]
                  ELSE s2
        IN [c EXCEPT !.session = s3,
                     !.game = [g EXCEPT !.piece_just_locked = FALSE]])

\* run_app, AppState::Versus: the transition on the session's state.
state_transition(c, new_bag) ==
    CASE c.session.state.tag = "Connected" ->
            [c EXCEPT !.session.state = Lobby(FALSE, FALSE)]
      [] c.session.state.tag = "Countdown" ->
            [c EXCEPT !.session = session_update_countdown(c.session)]
      [] c.session.state.tag = "Playing" -> play_frame(c, new_bag)
      [] OTHER -> c

\* run_app, AppState::Versus: poll_events() empties the channel, and the
\* events are handled one after the other.
poll_and_handle(s, g, seed) ==
    handle_events([session |-> [s EXCEPT !.event_rx = <<>>], game |-> g,
                   seed |-> seed], s.event_rx)

\* run_app, AppState::Versus: one frame.
versus_frame(s, g, seed, new_bag) ==
    Let(poll_and_handle(s, g, seed), LAMBDA c : state_transition(c, new_bag))

\* Seconds explored while a session is Playing.
MaxPlaySecs == 2

AnyPlaying == \E role \in Roles : session[role].state.tag = "Playing"

\* The host has created its session and its Game with a random seed and
\* waits for the guest; the guest has created its session and a Game of its
\* own random seed (h_seed) and connects.  No message has been written.
InitVersus ==
    /\ \E seed \in Seeds, own \in Seeds :
          /\ session = [role \in Roles |->
                           IF role = "Host"
                           THEN MultiplayerSession("Host", "WaitingForOpponent", seed)
                           ELSE MultiplayerSession("Guest", "Connecting", 0)]
          /\ host_game = with_seed(VersusMode, seed, Shuffled(0))
          /\ IsGame(with_seed(VersusMode, own, Shuffled(0)))
          /\ h_seed = own
    /\ stream = [role \in Roles |-> <<>>]
    /\ task = [role \in Roles |-> IF role = "Host" THEN "hello" ELSE "await_hello"]
    /\ InitHistory
    /\ draws = <<>>
    /\ other_bag = <<>>
    /\ other_draws = <<>>
    /\ h_board_in = Board_new
    /\ h_cleared = NoCount
    /\ h_args = <<>>
    /\ h_results = <<>>

VersusAuxUnchanged ==
    UNCHANGED <<draws, other_bag, other_draws, h_board_in, h_cleared, h_args,
                h_results, h_inputs>>

\* One frame of the guest's main loop, on the guest's Game; the history
\* variables follow the update() of a frame in ConnectionState::Playing.
GuestFrame ==
    /\ \E new_bag \in RefillOutcomes(bag) : \E g \in {G} :
       \E polled \in {poll_and_handle(session["Guest"], g, h_seed)} :
       \E c \in {state_transition(polled, new_bag)} :
          /\ session' = [session EXCEPT !["Guest"] = c.session]
          /\ SetGame(c.game)
          /\ h_seed' = c.seed
          /\ IF polled.session.state.tag = "Playing"
             THEN SetHistory(polled.game, c.game, "update")
             ELSE UNCHANGED <<h_locks, h_holds, h_low, h_timer_sets, h_play_ms,
                              h_term_calls>>
    /\ UNCHANGED <<host_game, stream, task, h_ticks>>
    /\ VersusAuxUnchanged

\* One frame of the host's main loop, on the host's Game.
HostFrame ==
    /\ \E new_bag \in RefillOutcomes(host_game.bag) :
       \E c \in {versus_frame(session["Host"], host_game,
                              session["Host"].game_seed, new_bag)} :
          /\ session' = [session EXCEPT !["Host"] = c.session]
          /\ host_game' = c.game
    /\ UNCHANGED <<game_vars, hist_vars, h_seed, stream, task>>
    /\ VersusAuxUnchanged

\* run_app, a key press in AppState::Versus: Enter readies the player in the
\* lobby; while Playing, Enter is bound to no Action.
ReadyKey(role) ==
    /\ session' = [session EXCEPT ![role] = set_ready(session[role])]
    /\ UNCHANGED <<game_vars, hist_vars, h_seed, host_game, stream, task>>
    /\ VersusAuxUnchanged

\* One second passes: every Instant of both games and of both sessions is one
\* second older.
VersusSecondPasses ==
    /\ AnyPlaying => h_ticks < MaxPlaySecs
    /\ h_ticks' = IF AnyPlaying THEN h_ticks + 1 ELSE h_ticks
    /\ \E g \in {G} : \E g2 \in {elapse(g, 1000)} : SetGame(g2)
    /\ host_game' = elapse(host_game, 1000)
    /\ session' = [role \in Roles |->
                      [session[role] EXCEPT
                          !.countdown_start = later(@, 1000, COUNTDOWN_SAT)]]
    /\ UNCHANGED <<h_locks, h_holds, h_low, h_timer_sets, h_play_ms, h_term_calls,
                   h_seed, stream, task>>
    /\ VersusAuxUnchanged

\* The task of role writes msg to the stream.
write_all(role, msg) == [stream EXCEPT ![Opponent(role)] = Append(@, msg)]

\* The task of role hands event to its session.
event_tx_send(role, event) ==
    [session EXCEPT ![role].event_rx = Append(@, event)]

NetworkUnchanged == UNCHANGED <<game_vars, hist_vars, h_seed, host_game>>

\* host_connection_loop(): the guest has connected, the host sends its hello.
HostSendsHello ==
    /\ task["Host"] = "hello"
    /\ stream' = write_all("Host", GameMessage("Hello", 0))
    /\ task' = [task EXCEPT !["Host"] = "await_hello"]
    /\ UNCHANGED session
    /\ NetworkUnchanged /\ VersusAuxUnchanged

\* host_connection_loop(): the host reads the guest's hello.
HostReceivesHello ==
    /\ task["Host"] = "await_hello"
    /\ stream["Host"] # <<>>
    /\ session' = IF Head(stream["Host"]).type = "Hello"
                  THEN event_tx_send("Host", NetEvent("Connected", 0))
                  ELSE session
    /\ stream' = [stream EXCEPT !["Host"] = Tail(@)]
    /\ task' = [task EXCEPT !["Host"] = "seed"]
    /\ NetworkUnchanged /\ VersusAuxUnchanged

\* The seed start_hosting() was given: the one main.rs stored in the session.
our_seed == session["Host"].game_seed

\* host_connection_loop(): the host sends its seed and enters the message loop.
HostSendsSeed ==
    /\ task["Host"] = "seed"
    /\ stream' = write_all("Host", GameMessage("Seed", our_seed))
    /\ task' = [task EXCEPT !["Host"] = "message_loop"]
    /\ UNCHANGED session
    /\ NetworkUnchanged /\ VersusAuxUnchanged

\* join_game(): the guest reads the host's hello; without it the task ends
\* and spawn_join() reports the error.
GuestReceivesHello ==
    /\ task["Guest"] = "await_hello"
    /\ stream["Guest"] # <<>>
    /\ \E hello \in {Head(stream["Guest"]).type = "Hello"} :
          /\ session' = event_tx_send("Guest", IF hello THEN NetEvent("Connected", 0)
                                               ELSE NetEvent("Error", 0))
          /\ task' = [task EXCEPT !["Guest"] = IF hello THEN "hello" ELSE "done"]
    /\ stream' = [stream EXCEPT !["Guest"] = Tail(@)]
    /\ NetworkUnchanged /\ VersusAuxUnchanged

\* join_game(): the guest sends its hello.
GuestSendsHello ==
    /\ task["Guest"] = "hello"
    /\ stream' = write_all("Guest", GameMessage("Hello", 0))
    /\ task' = [task EXCEPT !["Guest"] = "await_seed"]
    /\ UNCHANGED session
    /\ NetworkUnchanged /\ VersusAuxUnchanged

\* join_game(): the guest reads the seed and enters the message loop.
GuestReceivesSeed ==
    /\ task["Guest"] = "await_seed"
    /\ stream["Guest"] # <<>>
    /\ \E msg \in {Head(stream["Guest"])} :
          session' = IF msg.type = "Seed"
                     THEN event_tx_send("Guest", NetEvent("SeedReceived", msg.value))
                     ELSE session
    /\ stream' = [stream EXCEPT !["Guest"] = Tail(@)]
    /\ task' = [task EXCEPT !["Guest"] = "message_loop"]
    /\ NetworkUnchanged /\ VersusAuxUnchanged

\* message_loop(), the interval branch: one command of the session is written
\* to the stream.
SendsCommand(role) ==
    /\ task[role] = "message_loop"
    /\ session[role].cmd_tx # <<>>
    /\ stream' = write_all(role, Head(session[role].cmd_tx))
    /\ session' = [session EXCEPT ![role].cmd_tx = Tail(@)]
    /\ UNCHANGED task
    /\ NetworkUnchanged /\ VersusAuxUnchanged

\* message_loop(): the NetEvent a message read from the stream is turned into.
event_of(msg) ==
    CASE msg.type = "Hello" -> NetEvent("Connected", 0)
      [] msg.type = "Seed" -> NetEvent("SeedReceived", msg.value)
      [] msg.type = "Ready" -> NetEvent("OpponentReady", 0)
      [] msg.type = "Countdown" -> NetEvent("Countdown", msg.value)
      [] msg.type = "BoardState" -> NetEvent("BoardUpdate", 0)
      [] msg.type = "Garbage" -> NetEvent("GarbageReceived", msg.value)
      [] msg.type = "GameOver" -> NetEvent("OpponentGameOver", 0)
      [] msg.type = "Disconnect" -> NetEvent("Disconnected", 0)

\* message_loop(), the read branch: one message of the stream becomes an event
\* of the session; a Disconnect ends the loop.
ReceivesMessage(role) ==
    /\ task[role] = "message_loop"
    /\ stream[role] # <<>>
    /\ \E msg \in {Head(stream[role])} :
          /\ session' = event_tx_send(role, event_of(msg))
          /\ task' = [task EXCEPT ![role] = IF msg.type = "Disconnect" THEN "done"
                                            ELSE @]
    /\ stream' = [stream EXCEPT ![role] = Tail(@)]
    /\ NetworkUnchanged /\ VersusAuxUnchanged

NextVersus ==
    \/ GuestFrame
    \/ HostFrame
    \/ \E role \in Roles : ReadyKey(role)
    \/ VersusSecondPasses
    \/ HostSendsHello
    \/ HostReceivesHello
    \/ HostSendsSeed
    \/ GuestReceivesHello
    \/ GuestSendsHello
    \/ GuestReceivesSeed
    \/ \E role \in Roles : SendsCommand(role)
    \/ \E role \in Roles : ReceivesMessage(role)

SpecVersus == InitVersus /\ [][NextVersus]_vars

\* The match of two players whose random seeds both came out as 0.
InitVersusFair ==
    /\ InitVersus
    /\ h_seed = 0
    /\ session["Host"].game_seed = 0

\* Both main loops keep running, both network tasks are scheduled and time
\* passes; no player has to press a key.
SpecVersusFair ==
    /\ InitVersusFair
    /\ [][NextVersus]_vars
    /\ WF_vars(GuestFrame)
    /\ WF_vars(HostFrame)
    /\ WF_vars(VersusSecondPasses)
    /\ WF_vars(HostSendsHello \/ HostReceivesHello \/ HostSendsSeed)
    /\ WF_vars(GuestReceivesHello \/ GuestSendsHello \/ GuestReceivesSeed)
    /\ \A role \in Roles : WF_vars(SendsCommand(role))
    /\ \A role \in Roles : WF_vars(ReceivesMessage(role))

\* A player has readied up: set_ready() took effect in the lobby, or the
\* session is past the lobby.
ReadiedUp(role) ==
    \/ session[role].state.tag = "Lobby" /\ session[role].state.we_ready
    \/ session[role].state.tag \in {"Countdown", "Playing"}

BothPlaying == \A role \in Roles : session[role].state.tag = "Playing"

\* C39: under fair scheduling of both main loops and both network tasks,
\* once both players have readied up in the lobby both sessions are
\* eventually Playing, whatever the order of the network events, the
\* Connected -> Lobby transitions and the ready key presses.
C39_BothReadyLeadsToPlaying ==
    (ReadiedUp("Host") /\ ReadiedUp("Guest")) ~> BothPlaying

\* The start of the guest's Game, as Game::with_seed builds it from seed.
BuiltFrom(seed) ==
    \E g \in {with_seed(VersusMode, seed, Shuffled(0))} :
       /\ bag = g.bag
       /\ current_piece = g.current_piece
       /\ board = g.board
       /\ score = g.score

\* C40: whenever the guest's session is Playing, the guest's Game was
\* constructed with the host's seed, the seed the host's Game was constructed
\* with; as long as the guest's Game still counts down it is the Game that
\* seed builds.
C40_GuestPlaysHostSeed ==
    session["Guest"].state.tag = "Playing" =>
       /\ h_seed = session["Host"].game_seed
       /\ session["Guest"].game_seed = session["Host"].game_seed
       /\ state.tag = "Countdown" => BuiltFrom(session["Host"].game_seed)

\* The host's seed is 1: the guest is Playing on the Game that seed builds,
\* which is not the Game seed 0 builds.
C40_Witness ==
    /\ session["Guest"].state.tag = "Playing"
    /\ session["Host"].game_seed = 1
    /\ h_seed = 1
    /\ state.tag = "Countdown"
    /\ BuiltFrom(1)
    /\ ~BuiltFrom(0)

====
